---- MODULE Spec2Model ----
(***************************************************************************)
(* Build orchestration of the LaTeX report template:                       *)
(*   - scripts/compile.py : compile_document, the multi-pass build recipe  *)
(*   - scripts/watch.py   : LaTeXFileHandler and the two watch backends    *)
(*   - scripts/release.py : ReleaseManager.test_latex_compilation and      *)
(*                          create_release                                 *)
(*   - scripts/clean.py   : clean_project and its three scopes             *)
(* SpecCompile is one call of compile.py's main(); SpecAnalyze is the log  *)
(* analyzer called on one text, on another, and on the first again;        *)
(* SpecWatch is one watch session of watch.py's watch_files(); SpecHandler *)
(* is LaTeXFileHandler alone, called with any sequence of events and       *)
(* check_pending_compile() calls; SpecTracked is the watch session with    *)
(* its accepted events followed up to the next compile; SpecPoll is the    *)
(* polling session over a tree that also loses files; SpecBackends is a    *)
(* watchdog session and a polling session on the same changes; SpecRelease *)
(* is one call of test_latex_compilation, SpecCreate one call of           *)
(* create_release; SpecClean is one call of clean.py's main().             *)
(***************************************************************************)
EXTENDS Integers, Sequences, FiniteSets, TLC

\* ------------------------------------------------------------- bounds
\* Longest log, in lines, that a compiler pass writes.
MaxLogLines == 3
\* The watch session's clock runs from 0 to MaxTime seconds.
MaxTime == 4
\* File creations and modifications in one watch session.
MaxChanges == 3
\* Events the watchdog observer holds undelivered.
MaxQueue == 1
\* Paths whose removal the file system denies during one cleaning.
MaxDenied == 1

\* LaTeXFileHandler.__init__'s default compile_delay, in seconds
compile_delay == 2

VARIABLES
    \* ---- scripts/compile.py: one invocation of main() -> compile_document
    cpc,                \* position in main()/compile_document
    main_exists,        \* Path(main_file).exists()
    quick,              \* args.quick
    clean_first,        \* args.clean
    has_biber,          \* compile_document's local has_biber
    build_exists,       \* the directory build/ exists
    build_created,      \* create_build_directory() ran build_dir.mkdir()
    pdf_exists,         \* build/<stem>.pdf exists
    log,                \* build/<stem>.log: NoLog, or LogFile(its lines)
    compilation_steps,  \* the steps of the full recipe not yet run
    success,            \* compile_document's local success
    errors,             \* analyze_log_file's errors, as compile_document got them
    warnings,           \* analyze_log_file's warnings
    ret,                \* compile_document's return value: "none" before it returns,
                        \* then "True" or "False"
    exit_code,          \* sys.exit's argument (-1 before exit)
    calls,              \* every external process spawned so far, in order
    \* ---- scripts/watch.py: one watch session (watch_files)
    WATCHDOG_AVAILABLE, \* the module's import of watchdog succeeded
    now,                \* time.time(), in whole seconds
    last_compile,       \* LaTeXFileHandler.last_compile
    pending_compile,    \* LaTeXFileHandler.pending_compile
    wpc,                \* each thread's position
    current_time,       \* each thread's local current_time
    return_to,          \* where each thread's handler call returns to
    event,              \* the event each thread's on_created/on_modified handles
    wake,               \* when the main thread's time.sleep(1) ends
    observer_started,   \* observer.start() was called
    queue,              \* the observer's undelivered events
    fs,                 \* the tree: each file's modification stamp, 0 if absent
    changes,            \* creations and modifications so far
    file_mtimes,        \* SimpleFileWatcher.file_mtimes
    current_files,      \* SimpleFileWatcher.start's local current_files
    todo,               \* the keys of current_files the for loop has not reached
    watch_ret,          \* watch_files' return value ("none" before it returns)
    burst_start,        \* history: when the session's first accepted event arrived
                        \* (-1 before it)
    burst_ok,           \* history: every accepted event so far arrived less than
                        \* compile_delay after the first one
    burst_compiles,     \* history: compiles started since that first event, while
                        \* burst_ok
    arrived_during,     \* history: the thread whose compile was running when
                        \* another thread's schedule_compile handled an accepted
                        \* event ("none" when there is none)
    completed_at,       \* history: when that compile completed (-1 before it, and
                        \* again once the next compile has started)
    last_outcome,       \* history, kept in SpecHandler: how the last finished
                        \* scripts/compile.py subprocess ended ("none" before
                        \* the first)
    owed,               \* history, kept in SpecTracked: an event was accepted
                        \* and no scripts/compile.py has been started since
    \* ---- scripts/compile.py: analyze_log_file called three times
    apc,                \* which of the three calls comes next
    a_text,             \* the log analyzed first and last
    a_other,            \* the log analyzed in between
    a_errors,           \* analyze_log_file's list errors, as last returned
    a_warnings,         \* analyze_log_file's list warnings, as last returned
    a_first,            \* the pair (errors, warnings) the first call returned
    \* ---- scripts/release.py: one call of test_latex_compilation
    rpc,                \* position in test_latex_compilation
    r_i,                \* the loop's i (1..3), 4 after the loop
    r_calls,            \* the commands run_command has run, in order
    r_build_exists,     \* the directory build/ exists
    r_build_created,    \* test_latex_compilation's mkdir created build/
    r_pdf,              \* build/main.pdf exists
    r_ret,              \* test_latex_compilation's return value ("none" before)
    \* ---- scripts/clean.py: one invocation of main() -> clean_project
    kpc,                \* position in clean_project/main
    clean_args,         \* clean_project's parameters
    disk0,              \* history: the paths that existed when the call began
    disk,               \* the paths that exist
    denied,             \* the paths whose removal raises PermissionError
    candidates,         \* what the running for loop has still to visit
    files_removed,      \* clean_temp_files' / clean_build_directory's local
    dirs_removed,       \* clean_cache_directories' local
    total_files_removed,\* clean_project's local
    total_dirs_removed, \* clean_project's local
    attempted,          \* history: the paths unlink/rmtree was called on
    printed,            \* the lines printed about removals, in order
    clean_exit,         \* the process's exit status (-1 before it ends)
    mpc,                \* where create_release is
    version,            \* create_release's argument, as characters
    dry_run,            \* create_release's argument
    branch,             \* the branch that is checked out
    wd_clean,           \* `git status --porcelain` has nothing to print
    structure_valid,    \* validate_project_structure()'s result
    local_tags0,        \* history: the local tags when the call began
    local_tags,         \* the tags of the local repository
    remote_tags,        \* the tags this call pushed to origin
    git_calls,          \* the git commands run so far, in order
    create_ret,         \* create_release's return value ("none" before)
    b_now,              \* both sessions' clock, in seconds
    b_tree,             \* the tree both sessions watch: stamp of each path, 0
                        \* for a path that does not exist
    b_changes,          \* changes made to the tree so far
    b_unseen,           \* a change was made after the last scan
    wd,                 \* the handler of the watchdog session
    po,                 \* the handler of the polling session
    b_mtimes            \* the polling session's file_mtimes (-1: no entry)

cvars == <<cpc, main_exists, quick, clean_first, has_biber, build_exists,
           build_created, pdf_exists, log, compilation_steps, success,
           errors, warnings, ret, exit_code, calls>>

hvars == <<last_compile, pending_compile>>

tvars == <<wpc, current_time, return_to, event>>

pvars == <<file_mtimes, current_files, todo>>

evars == <<now, fs, queue, changes>>

gvars == <<burst_start, burst_ok, burst_compiles>>

nvars == <<arrived_during, completed_at, last_outcome, owed>>

wvars == <<WATCHDOG_AVAILABLE, hvars, tvars, wake, observer_started, pvars,
           evars, watch_ret, gvars, nvars>>

avars == <<apc, a_text, a_other, a_errors, a_warnings, a_first>>

rvars == <<rpc, r_i, r_calls, r_build_exists, r_build_created, r_pdf, r_ret>>

kvars == <<kpc, clean_args, disk0, disk, denied, candidates, files_removed,
           dirs_removed, total_files_removed, total_dirs_removed, attempted,
           printed, clean_exit>>

mvars == <<mpc, version, dry_run, branch, wd_clean, structure_valid,
           local_tags0, local_tags, remote_tags, git_calls, create_ret>>

bvars == <<b_now, b_tree, b_changes, b_unseen, wd, po, b_mtimes>>

\* the variables of the scripts modelled after the first four
ovars == <<kvars, mvars, bvars>>

vars == <<cvars, wvars, avars, rvars, ovars>>

\* ------------------------------------------- the watch session's universe
\* the main thread of watch_files and the watchdog observer's thread
Threads == {"main", "observer"}

\* the paths of the watched tree: main.tex, refs.bib, build/main.tex
Files == {"main", "bib", "built"}

\* the paths of the tree two sessions are compared on: main.tex, A.TEX and
\* the directory d.tex/
BackendPaths == {"main", "upper", "dir"}

\* other paths a backend may call the handler for: the directory d.tex/,
\* the hidden file .a.tex, the swap file ~a.tex, a.txt and A.TEX
OtherPaths == {"dir", "hidden", "swap", "text", "upper"}

\* an event object (event.src_path, on_created or on_modified); NoEvent when
\* a thread handles none
NoEvent == [kind |-> "none", file |-> "none"]

Event(kind, f) == [kind |-> kind, file |-> f]

\* ---------------------------------------------------------- strings
\* str.lower(), on the letters the paths and the log lines below are made of
LowerChar(c) ==
    CASE c = "T" -> "t" [] c = "E" -> "e" [] c = "X" -> "x"
      [] c = "B" -> "b" [] c = "I" -> "i" [] c = "C" -> "c"
      [] c = "L" -> "l" [] c = "S" -> "s" [] c = "Y" -> "y"
      [] c = "W" -> "w" [] c = "A" -> "a" [] c = "R" -> "r"
      [] c = "N" -> "n" [] c = "G" -> "g" [] c = "M" -> "m"
      [] OTHER -> c

Lower(str) == [i \in 1..Len(str) |-> LowerChar(str[i])]

\* ------------------------------------------------------ log analysis
\* A log line is a tuple of characters; a log is the tuple of the lines
\* log_content.split('\n') yields.
NoLog == [exists |-> FALSE, lines |-> <<>>]

LogFile(lines) == [exists |-> TRUE, lines |-> lines]

LineError == <<"!", " ", "U">>
LineWarningCap == <<"x", "W", "a", "r", "n", "i", "n", "g", ":">>
LineWarningLow == <<"w", "a", "r", "n", "i", "n", "g", ":", "x">>
LineWarningUp == <<"W", "A", "R", "N", "I", "N", "G", ":">>
LineBangInside == <<"x", "!">>
LinePlain == <<"o", "k">>

LogLines == {LineError, LineWarningCap, LineWarningLow, LineWarningUp,
             LineBangInside, LinePlain}

RECURSIVE SeqsUpTo(_, _)
SeqsUpTo(S, n) ==
    IF n = 0 THEN {<<>>}
    ELSE LET shorter == SeqsUpTo(S, n - 1)
         IN shorter \cup {Append(s, x) : s \in shorter, x \in S}

\* The logs a compiler pass may leave behind: an error line, a warning line
\* and a plain line, in any order.
PassLogLines == {LineError, LineWarningCap, LinePlain}

Logs == {LogFile(l) : l \in SeqsUpTo(PassLogLines, MaxLogLines)}

\* str.startswith(prefix) for a one-character prefix
StartsWith(line, c) == Len(line) >= 1 /\ line[1] = c

\* `pat in line`
Contains(line, pat) ==
    \E i \in 1..(Len(line) - Len(pat) + 1) :
        SubSeq(line, i, i + Len(pat) - 1) = pat

PatWarningCap == <<"W", "a", "r", "n", "i", "n", "g", ":">>
PatWarningLow == <<"w", "a", "r", "n", "i", "n", "g", ":">>

\* f"Line {i+1}: {line}", i the 0-based index of enumerate: n = i+1
Diagnostic_ZeroBased(n, line) == <<"Line", n - 1, line>>

Diagnostic(n, line) == <<"Line", n, line>>

IsErrorLine(line) == StartsWith(line, "!")

IsWarningLine(line) ==
    /\ ~IsErrorLine(line)
    /\ (Contains(line, PatWarningCap) \/ Contains(line, PatWarningLow))

RECURSIVE ScanLines(_, _, _, _)
ScanLines(lines, n, errs, warns) ==
    IF n > Len(lines) THEN <<errs, warns>>
    ELSE IF IsErrorLine(lines[n])
         THEN ScanLines(lines, n + 1, Append(errs, Diagnostic(n, lines[n])), warns)
         ELSE IF IsWarningLine(lines[n])
              THEN ScanLines(lines, n + 1, errs, Append(warns, Diagnostic(n, lines[n])))
              ELSE ScanLines(lines, n + 1, errs, warns)

\* `errors = []` and `warnings = []`: each call starts from new lists,
\* whatever the lists of the call before hold
FreshList_Kept(previous) == previous

FreshList(previous) == <<>>

\* one call of analyze_log_file, prev_errors and prev_warnings being the
\* lists the call before it returned
analyze_call(l, prev_errors, prev_warnings) ==
    IF ~l.exists THEN <<(<<>>), (<<>>)>>
    ELSE ScanLines(l.lines, 1, FreshList(prev_errors), FreshList(prev_warnings))

\* analyze_log_file(build_dir, main_file_stem) -> (errors, warnings)
analyze_log_file(l) == analyze_call(l, <<>>, <<>>)

\* the log texts given to the analyzer on its own: every line kind, any order
AnalyzerLogs == {NoLog} \cup {LogFile(l) : l \in SeqsUpTo(LogLines, MaxLogLines)}

\* the log texts analyzed between two analyses of the same text
OtherLogs == {NoLog} \cup Logs

AnalyzeInit ==
    /\ apc = "first"
    /\ a_text \in AnalyzerLogs
    /\ a_other \in OtherLogs
    /\ a_errors = <<>>
    /\ a_warnings = <<>>
    /\ a_first = <<(<<>>), (<<>>)>>
    \* no compile.py call, no watch session, no release test are under way
    /\ cpc = "idle"
    /\ main_exists = FALSE
    /\ quick = FALSE
    /\ clean_first = FALSE
    /\ has_biber = FALSE
    /\ build_exists = FALSE
    /\ build_created = FALSE
    /\ pdf_exists = FALSE
    /\ log = NoLog
    /\ compilation_steps = <<>>
    /\ success = FALSE
    /\ errors = <<>>
    /\ warnings = <<>>
    /\ ret = "none"
    /\ exit_code = -1
    /\ calls = <<>>
    /\ WATCHDOG_AVAILABLE = FALSE
    /\ now = 0
    /\ last_compile = 0
    /\ pending_compile = FALSE
    /\ wpc = [t \in Threads |-> "idle"]
    /\ current_time = [t \in Threads |-> 0]
    /\ return_to = [t \in Threads |-> "none"]
    /\ event = [t \in Threads |-> NoEvent]
    /\ wake = 0
    /\ observer_started = FALSE
    /\ queue = <<>>
    /\ fs = [f \in Files |-> 0]
    /\ changes = 0
    /\ file_mtimes = [f \in Files |-> -1]
    /\ current_files = [f \in Files |-> -1]
    /\ todo = {}
    /\ watch_ret = "none"
    /\ burst_start = -1
    /\ burst_ok = TRUE
    /\ burst_compiles = 0
    /\ arrived_during = "none"
    /\ completed_at = -1
    /\ last_outcome = "none"
    /\ owed = FALSE
    /\ rpc = "idle"
    /\ r_i = 0
    /\ r_calls = <<>>
    /\ r_build_exists = FALSE
    /\ r_build_created = FALSE
    /\ r_pdf = FALSE
    /\ r_ret = "none"
    \* no cleaning is under way
    /\ kpc = "idle"
    /\ clean_args = [clean_build |-> TRUE, clean_temp |-> TRUE,
                     clean_cache |-> FALSE, keep_pdf |-> TRUE,
                     recursive |-> TRUE, dry_run |-> FALSE]
    /\ disk0 = {}
    /\ disk = {}
    /\ denied = {}
    /\ candidates = <<>>
    /\ files_removed = 0
    /\ dirs_removed = 0
    /\ total_files_removed = 0
    /\ total_dirs_removed = 0
    /\ attempted = {}
    /\ printed = <<>>
    /\ clean_exit = -1
    \* no release is being created
    /\ mpc = "idle"
    /\ version = <<>>
    /\ dry_run = FALSE
    /\ branch = "main"
    /\ wd_clean = FALSE
    /\ structure_valid = FALSE
    /\ local_tags0 = {}
    /\ local_tags = {}
    /\ remote_tags = {}
    /\ git_calls = <<>>
    /\ create_ret = "none"
    \* no pair of sessions is compared
    /\ b_now = 0
    /\ b_tree = [p \in BackendPaths |-> 0]
    /\ b_changes = 0
    /\ b_unseen = FALSE
    /\ wd = [last_compile |-> 0, pending_compile |-> FALSE, compiles |-> 0]
    /\ po = [last_compile |-> 0, pending_compile |-> FALSE, compiles |-> 0]
    /\ b_mtimes = [p \in BackendPaths |-> -1]

\* the first call: analyze_log_file on a_text
AnalyzeFirst ==
    /\ apc = "first"
    /\ a_errors' = analyze_call(a_text, a_errors, a_warnings)[1]
    /\ a_warnings' = analyze_call(a_text, a_errors, a_warnings)[2]
    /\ a_first' = analyze_call(a_text, a_errors, a_warnings)
    /\ apc' = "between"
    /\ UNCHANGED <<ovars, cvars, wvars, rvars, a_text, a_other>>

\* the call in between: analyze_log_file on a_other
AnalyzeBetween ==
    /\ apc = "between"
    /\ a_errors' = analyze_call(a_other, a_errors, a_warnings)[1]
    /\ a_warnings' = analyze_call(a_other, a_errors, a_warnings)[2]
    /\ apc' = "again"
    /\ UNCHANGED <<ovars, cvars, wvars, rvars, a_text, a_other, a_first>>

\* the last call: analyze_log_file on a_text again
AnalyzeAgain ==
    /\ apc = "again"
    /\ a_errors' = analyze_call(a_text, a_errors, a_warnings)[1]
    /\ a_warnings' = analyze_call(a_text, a_errors, a_warnings)[2]
    /\ apc' = "done"
    /\ UNCHANGED <<ovars, cvars, wvars, rvars, a_text, a_other, a_first>>

AnalyzeNext ==
    \/ AnalyzeFirst
    \/ AnalyzeBetween
    \/ AnalyzeAgain

\* ------------------------------------------ properties of the analyzer
\* the diagnostics of seq that refer to line n
ListedIn(seq, n) == \E k \in 1..Len(seq) : seq[k][2] = n

\* the line numbers of a sequence of diagnostics, in its order
LineNumbers(seq) == [k \in 1..Len(seq) |-> seq[k][2]]

Increasing(nums) ==
    \A j, k \in 1..Len(nums) : j < k => nums[j] < nums[k]

\* every diagnostic of seq is "Line n: <line n of the text>", n counted from 1
RefersToItsLine(seq, lines) ==
    \A k \in 1..Len(seq) :
        /\ seq[k][2] \in 1..Len(lines)
        /\ seq[k] = <<"Line", seq[k][2], lines[seq[k][2]]>>

\* C14: every line of the log is listed as an error iff it begins with
\* '!', and as a warning iff it contains "warning:" in any letter case
\* ('Warning:', 'warning:' and 'WARNING:' alike).
C14_ClassifiesCaseInsensitively ==
    (apc = "between" /\ a_text.exists) =>
        \A n \in 1..Len(a_text.lines) :
            /\ ListedIn(a_errors, n) <=> StartsWith(a_text.lines[n], "!")
            /\ ListedIn(a_warnings, n) <=>
                   Contains(Lower(a_text.lines[n]), PatWarningLow)

\* C15 as claimed: the diagnostics come back as one sequence (the errors
\* and the warnings as returned) in the order of their lines in the log:
\* a warning on an earlier line precedes an error on a later line.
C15_OneSequenceInLineOrder ==
    apc = "between" => Increasing(LineNumbers(a_errors \o a_warnings))

\* C15 amended: the analyzer returns two sequences, the errors and the
\* warnings; each is in the order the lines occur in the log and each
\* diagnostic carries the 1-based number of its line.
C15_LineOrderWithinSeverity ==
    apc = "between" =>
        /\ Increasing(LineNumbers(a_errors))
        /\ Increasing(LineNumbers(a_warnings))
        /\ RefersToItsLine(a_errors, a_text.lines)
        /\ RefersToItsLine(a_warnings, a_text.lines)

C15_Witness ==
    /\ apc = "between"
    /\ Len(a_errors) = 2
    /\ Len(a_warnings) = 1
    /\ a_warnings[1][2] < a_errors[1][2]

ProbeOutcomes == {"zero", "nonzero", "timeout", "notfound"}
PdflatexOutcomes == {"zero", "nonzero", "timeout"}
BiberOutcomes == {"zero", "no_control_file", "nonzero", "timeout"}

Call(tool, arg, rc) == [tool |-> tool, arg |-> arg, rc |-> rc]

\* check_latex_installation's return value for a probe outcome
LatexInstalled_IgnoresReturncode(o) == o \in {"zero", "nonzero"}

LatexInstalled(o) == o = "zero"

\* check_biber_installation's return value for a probe outcome
BiberInstalled_Always(o) == TRUE

BiberInstalled(o) == o = "zero"

\* where compile_document goes after `if not main_path.exists()`
AfterValidate_NoCheck(exists) == "check_latex"

AfterValidate(exists) == IF exists THEN "check_latex" ELSE "return"

\* the list compilation_steps of the full recipe
CompilationSteps_BiberFirst(hb) ==
    IF hb THEN <<"biber", "pdflatex", "pdflatex", "pdflatex">>
    ELSE <<"pdflatex", "pdflatex", "pdflatex">>

CompilationSteps(hb) ==
    IF hb THEN <<"pdflatex", "biber", "pdflatex", "pdflatex">>
    ELSE <<"pdflatex", "pdflatex", "pdflatex">>

\* run_pdflatex / run_biber: `return result.returncode == 0, result`, and
\* `return False, None` on TimeoutExpired
StepSuccess_TimeoutIgnored(o) == o \in {"zero", "timeout"}

StepSuccess(o) == o = "zero"

\* the steps left after one step of the loop: `if not step_success: ... break`
RemainingSteps_NoBreak(step_success, rest) == rest

RemainingSteps(step_success, rest) == IF step_success THEN rest ELSE <<>>

\* `return success`
ReturnValue_ErrorsDowngrade(s, errs, warns) == s /\ errs = <<>>

ReturnValue(s, errs, warns) == s

CompileInit ==
    /\ cpc = "validate"
    /\ main_exists \in BOOLEAN
    /\ quick \in BOOLEAN
    /\ clean_first \in BOOLEAN
    /\ build_exists \in BOOLEAN
    /\ pdf_exists \in BOOLEAN
    /\ (pdf_exists => build_exists)
    /\ log \in Logs \cup {NoLog}
    /\ (log # NoLog => build_exists)
    /\ has_biber = FALSE
    /\ build_created = FALSE
    /\ compilation_steps = <<>>
    /\ success = FALSE
    /\ errors = <<>>
    /\ warnings = <<>>
    /\ ret = "none"
    /\ exit_code = -1
    /\ calls = <<>>
    \* no watch session is under way
    /\ WATCHDOG_AVAILABLE = FALSE
    /\ now = 0
    /\ last_compile = 0
    /\ pending_compile = FALSE
    /\ wpc = [t \in Threads |-> "idle"]
    /\ current_time = [t \in Threads |-> 0]
    /\ return_to = [t \in Threads |-> "none"]
    /\ event = [t \in Threads |-> NoEvent]
    /\ wake = 0
    /\ observer_started = FALSE
    /\ queue = <<>>
    /\ fs = [f \in Files |-> 0]
    /\ changes = 0
    /\ file_mtimes = [f \in Files |-> -1]
    /\ current_files = [f \in Files |-> -1]
    /\ todo = {}
    /\ watch_ret = "none"
    /\ burst_start = -1
    /\ burst_ok = TRUE
    /\ burst_compiles = 0
    /\ arrived_during = "none"
    /\ completed_at = -1
    /\ last_outcome = "none"
    /\ owed = FALSE
    \* no analysis on its own and no release test are under way
    /\ apc = "idle"
    /\ a_text = NoLog
    /\ a_other = NoLog
    /\ a_errors = <<>>
    /\ a_warnings = <<>>
    /\ a_first = <<(<<>>), (<<>>)>>
    /\ rpc = "idle"
    /\ r_i = 0
    /\ r_calls = <<>>
    /\ r_build_exists = FALSE
    /\ r_build_created = FALSE
    /\ r_pdf = FALSE
    /\ r_ret = "none"
    \* no cleaning is under way
    /\ kpc = "idle"
    /\ clean_args = [clean_build |-> TRUE, clean_temp |-> TRUE,
                     clean_cache |-> FALSE, keep_pdf |-> TRUE,
                     recursive |-> TRUE, dry_run |-> FALSE]
    /\ disk0 = {}
    /\ disk = {}
    /\ denied = {}
    /\ candidates = <<>>
    /\ files_removed = 0
    /\ dirs_removed = 0
    /\ total_files_removed = 0
    /\ total_dirs_removed = 0
    /\ attempted = {}
    /\ printed = <<>>
    /\ clean_exit = -1
    \* no release is being created
    /\ mpc = "idle"
    /\ version = <<>>
    /\ dry_run = FALSE
    /\ branch = "main"
    /\ wd_clean = FALSE
    /\ structure_valid = FALSE
    /\ local_tags0 = {}
    /\ local_tags = {}
    /\ remote_tags = {}
    /\ git_calls = <<>>
    /\ create_ret = "none"
    \* no pair of sessions is compared
    /\ b_now = 0
    /\ b_tree = [p \in BackendPaths |-> 0]
    /\ b_changes = 0
    /\ b_unseen = FALSE
    /\ wd = [last_compile |-> 0, pending_compile |-> FALSE, compiles |-> 0]
    /\ po = [last_compile |-> 0, pending_compile |-> FALSE, compiles |-> 0]
    /\ b_mtimes = [p \in BackendPaths |-> -1]

\* compile_document: `if not main_path.exists(): ... return False`
ValidateMainFile ==
    /\ cpc = "validate"
    /\ cpc' = AfterValidate(main_exists)
    /\ ret' = IF AfterValidate(main_exists) = "return" THEN "False" ELSE ret
    /\ UNCHANGED <<ovars, wvars, avars, rvars, main_exists, quick, clean_first, has_biber, build_exists,
                   build_created, pdf_exists, log, compilation_steps, success,
                   errors, warnings, exit_code, calls>>

\* compile_document: `if not check_latex_installation(): return False`
check_latex_installation ==
    /\ cpc = "check_latex"
    /\ \E o \in ProbeOutcomes :
        /\ calls' = Append(calls, Call("pdflatex", "--version", o))
        /\ cpc' = IF LatexInstalled(o) THEN "check_biber" ELSE "return"
        /\ ret' = IF LatexInstalled(o) THEN ret ELSE "False"
    /\ UNCHANGED <<ovars, wvars, avars, rvars, main_exists, quick, clean_first, has_biber, build_exists,
                   build_created, pdf_exists, log, compilation_steps, success,
                   errors, warnings, exit_code>>

\* compile_document: `has_biber = check_biber_installation()`
check_biber_installation ==
    /\ cpc = "check_biber"
    /\ \E o \in ProbeOutcomes :
        /\ calls' = Append(calls, Call("biber", "--version", o))
        /\ has_biber' = BiberInstalled(o)
    /\ cpc' = "prepare"
    /\ UNCHANGED <<ovars, wvars, avars, rvars, main_exists, quick, clean_first, build_exists,
                   build_created, pdf_exists, log, compilation_steps, success,
                   errors, warnings, ret, exit_code>>

\* compile_document from create_build_directory() to the choice of the
\* recipe: mkdir build, copy the class file, clean *.aux/*.log/*.out if
\* asked, success = True, build compilation_steps
PrepareBuild ==
    /\ cpc = "prepare"
    /\ build_exists' = TRUE
    /\ build_created' = ~build_exists
    /\ log' = IF clean_first THEN NoLog ELSE log
    /\ success' = TRUE
    /\ compilation_steps' = IF quick THEN <<>> ELSE CompilationSteps(has_biber)
    /\ cpc' = IF quick THEN "quick_pass" ELSE "full_loop"
    /\ UNCHANGED <<ovars, wvars, avars, rvars, main_exists, quick, clean_first, has_biber, pdf_exists,
                   errors, warnings, ret, exit_code, calls>>

\* one run_pdflatex: the process ends with outcome o having written the log
\* and perhaps the PDF
RunPdflatex(o, newlog, newpdf) ==
    /\ calls' = Append(calls, Call("pdflatex", "pass", o))
    /\ log' = newlog
    /\ pdf_exists' = newpdf

\* one run_biber: biber writes neither the log nor the PDF
RunBiber(o) ==
    /\ calls' = Append(calls, Call("biber", "pass", o))
    /\ UNCHANGED <<log, pdf_exists>>

\* compile_document, `if quick:` branch
QuickPass ==
    /\ cpc = "quick_pass"
    /\ \E o \in PdflatexOutcomes, newlog \in Logs, newpdf \in BOOLEAN :
        /\ RunPdflatex(o, newlog, newpdf)
        /\ success' = StepSuccess(o)
    /\ cpc' = "analyze"
    /\ UNCHANGED <<ovars, wvars, avars, rvars, main_exists, quick, clean_first, has_biber, build_exists,
                   build_created, compilation_steps, errors, warnings, ret,
                   exit_code>>

\* compile_document, one iteration of `for step_desc, step_func in
\* compilation_steps`
FullStep ==
    /\ cpc = "full_loop"
    /\ compilation_steps # <<>>
    /\ \E o \in PdflatexOutcomes \cup BiberOutcomes :
        /\ \/ /\ Head(compilation_steps) = "pdflatex"
              /\ o \in PdflatexOutcomes
              /\ \E newlog \in Logs, newpdf \in BOOLEAN :
                    RunPdflatex(o, newlog, newpdf)
           \/ /\ Head(compilation_steps) = "biber"
              /\ o \in BiberOutcomes
              /\ RunBiber(o)
        /\ success' = IF StepSuccess(o) THEN success ELSE FALSE
        /\ compilation_steps' = RemainingSteps(StepSuccess(o), Tail(compilation_steps))
        /\ cpc' = IF RemainingSteps(StepSuccess(o), Tail(compilation_steps)) = <<>>
                  THEN "analyze" ELSE "full_loop"
    /\ UNCHANGED <<ovars, wvars, avars, rvars, main_exists, quick, clean_first, has_biber, build_exists,
                   build_created, errors, warnings, ret, exit_code>>

\* compile_document from `# Analyze results` to `return success`
AnalyzeResults ==
    /\ cpc = "analyze"
    /\ errors' = analyze_log_file(log)[1]
    /\ warnings' = analyze_log_file(log)[2]
    /\ ret' = IF ReturnValue(success, analyze_log_file(log)[1], analyze_log_file(log)[2])
              THEN "True" ELSE "False"
    /\ cpc' = "return"
    /\ UNCHANGED <<ovars, wvars, avars, rvars, main_exists, quick, clean_first, has_biber, build_exists,
                   build_created, pdf_exists, log, compilation_steps, success,
                   exit_code, calls>>

\* main: `sys.exit(0 if success else 1)`
MainExit ==
    /\ cpc = "return"
    /\ exit_code' = IF ret = "True" THEN 0 ELSE 1
    /\ cpc' = "exited"
    /\ UNCHANGED <<ovars, wvars, avars, rvars, main_exists, quick, clean_first, has_biber, build_exists,
                   build_created, pdf_exists, log, compilation_steps, success,
                   errors, warnings, ret, calls>>

CompileNext ==
    \/ ValidateMainFile
    \/ check_latex_installation
    \/ check_biber_installation
    \/ PrepareBuild
    \/ QuickPass
    \/ FullStep
    \/ AnalyzeResults
    \/ MainExit

\* ------------------------------------- properties of scripts/compile.py
\* the compile and bibliography passes run so far (the probes left out)
IsPass(c) == c.arg = "pass"

Passes == SelectSeq(calls, IsPass)

PassTools == [i \in 1..Len(Passes) |-> Passes[i].tool]

AllPassesZero == \A i \in 1..Len(Passes) : Passes[i].rc = "zero"

Returned == cpc \in {"return", "exited"}

LatexProbeOk == \E i \in 1..Len(calls) : calls[i] = Call("pdflatex", "--version", "zero")

BiberProbeOk == \E i \in 1..Len(calls) : calls[i] = Call("biber", "--version", "zero")

BiberProbeFailed ==
    \E i \in 1..Len(calls) :
        calls[i].tool = "biber" /\ calls[i].arg = "--version" /\ calls[i].rc # "zero"

IsPrefix(s, t) == Len(s) <= Len(t) /\ SubSeq(t, 1, Len(s)) = s

FailedCompilePass(i) == calls[i] = Call("pdflatex", "pass", "nonzero")

\* C3: a call that ran its passes reports success (returns True, exits 0)
\* if and only if every executed pass exited zero and build/<stem>.pdf
\* exists afterwards.
C3_SuccessIffPassesZeroAndPdf ==
    (cpc = "exited" /\ Passes # <<>>) =>
        ((ret = "True" /\ exit_code = 0) <=> (AllPassesZero /\ pdf_exists))

\* C4: the diagnostics of analyze_log_file never change the result: the
\* value returned is decided by the preflight and the passes' exit
\* statuses alone, whatever errors and warnings the log holds.
C4_DiagnosticsNeverChangeResult ==
    Returned =>
        ((ret = "True") <=> (main_exists /\ LatexProbeOk /\ AllPassesZero))

C4_Witness ==
    /\ cpc = "exited"
    /\ ret = "True"
    /\ errors # <<>>
    /\ warnings # <<>>

\* C5: when the source document does not exist, compile_document returns
\* False with no external process spawned (no probe, no pass) and no build
\* directory created.
C5_MissingSourceSpawnsNothing ==
    ~main_exists =>
        /\ calls = <<>>
        /\ ~build_created
        /\ cpc \in {"validate", "return", "exited"}
        /\ (cpc # "validate" => ret = "False")

C5_Witness ==
    /\ cpc = "exited"
    /\ ~main_exists
    /\ ret = "False"
    /\ exit_code = 1

\* C6: when the 'pdflatex --version' probe is not found, times out or exits
\* non-zero, compile_document returns False and the probe stays the only
\* process spawned: no compile pass, no bibliography pass.
C6_NoCompilerFailsFast ==
    (Len(calls) >= 1 /\ calls[1].tool = "pdflatex" /\ calls[1].rc # "zero") =>
        /\ Len(calls) = 1
        /\ Returned
        /\ ret = "False"

C6_Witness ==
    /\ cpc = "exited"
    /\ calls = <<Call("pdflatex", "--version", "timeout")>>
    /\ ret = "False"

\* C7: a quick-mode call runs exactly one compiler pass and never invokes
\* biber at any point of the call.
C7_QuickNeverInvokesBiber ==
    quick =>
        /\ \A i \in 1..Len(calls) : calls[i].tool # "biber"
        /\ (Returned /\ main_exists /\ LatexProbeOk) => PassTools = <<"pdflatex">>

\* C8: a full-mode call whose biber probe failed runs no bibliography pass,
\* fails only if a compiler pass failed, and reports success when all
\* compiler passes exit zero and the PDF exists.
C8_FullModeWithoutBiber ==
    (~quick /\ BiberProbeFailed) =>
        /\ \A i \in 1..Len(Passes) : Passes[i].tool = "pdflatex"
        /\ Returned =>
            /\ (AllPassesZero /\ pdf_exists) => ret = "True"
            /\ ret = "False" => ~AllPassesZero

C8_Witness ==
    /\ cpc = "exited"
    /\ ~quick
    /\ BiberProbeFailed
    /\ Len(Passes) >= 1
    /\ pdf_exists
    /\ ret = "True"

\* C9 as claimed: in full mode the passes are pass 1, the bibliography pass
\* (if the probe succeeded), pass 2, and pass 3 only if the bibliography
\* pass ran: without it exactly two compiler passes.
ClaimedSequence ==
    IF BiberProbeOk THEN <<"pdflatex", "biber", "pdflatex", "pdflatex">>
    ELSE <<"pdflatex", "pdflatex">>

C9_ClaimedPassOrder ==
    ~quick =>
        /\ IsPrefix(PassTools, ClaimedSequence)
        /\ (Returned /\ ret = "True") => PassTools = ClaimedSequence

\* C9 amended: in full mode the passes are pass 1, the bibliography pass
\* (only if the probe succeeded), pass 2, pass 3: three compiler passes
\* with or without the bibliography pass; a run is a prefix of that
\* sequence and a successful run is all of it.
AmendedSequence ==
    IF BiberProbeOk THEN <<"pdflatex", "biber", "pdflatex", "pdflatex">>
    ELSE <<"pdflatex", "pdflatex", "pdflatex">>

C9_PassOrder ==
    ~quick =>
        /\ IsPrefix(PassTools, AmendedSequence)
        /\ (Returned /\ ret = "True") => PassTools = AmendedSequence

C9_Witness ==
    /\ cpc = "exited"
    /\ ~quick
    /\ BiberProbeFailed
    /\ PassTools = <<"pdflatex", "pdflatex", "pdflatex">>
    /\ ret = "True"

\* C10: once a compile pass has exited non-zero no further external tool
\* is invoked (that pass stays the last process spawned) and the call
\* returns failure.
C10_FailedPassAborts ==
    \A i \in 1..Len(calls) :
        FailedCompilePass(i) =>
            /\ i = Len(calls)
            /\ cpc \in {"analyze", "return", "exited"}
            /\ (Returned => ret = "False")

C10_Witness ==
    /\ cpc = "exited"
    /\ ~quick
    /\ BiberProbeOk
    /\ Len(Passes) = 1
    /\ FailedCompilePass(Len(calls))
    /\ ret = "False"

BiberPassFailed(i) ==
    calls[i].tool = "biber" /\ calls[i].arg = "pass" /\ calls[i].rc # "zero"

OtherPassesZero(i) ==
    \A j \in 1..Len(calls) : (j # i /\ IsPass(calls[j])) => calls[j].rc = "zero"

\* C11: in full mode a failed bibliography pass is non-fatal if and only if
\* its cause is the absent control file: then the later compile passes
\* still run and the call can succeed; after any other failure of the
\* bibliography pass nothing more runs and the call returns False.
C11_BiberFailureClassification ==
    \A i \in 1..Len(calls) :
        BiberPassFailed(i) =>
            IF calls[i].rc = "no_control_file"
            THEN Returned =>
                    /\ i < Len(calls)
                    /\ (OtherPassesZero(i) /\ pdf_exists) => ret = "True"
            ELSE /\ i = Len(calls)
                 /\ (Returned => ret = "False")

TimedOutPass(i) == IsPass(calls[i]) /\ calls[i].rc = "timeout"

\* C13: a pass that times out (compiler or bibliography, quick or full
\* mode) is a failed pass: it stays the last process spawned (no later
\* pass, no retry), compile_document goes on to its return, and it
\* returns False.
C13_TimeoutIsFailedPass ==
    \A i \in 1..Len(calls) :
        TimedOutPass(i) =>
            /\ i = Len(calls)
            /\ cpc \in {"analyze", "return", "exited"}
            /\ (Returned => (ret = "False" /\ ~success))

C13_Witness ==
    /\ cpc = "exited"
    /\ ~quick
    /\ Len(Passes) = 2
    /\ calls[Len(calls)] = Call("biber", "pass", "timeout")
    /\ ret = "False"
    /\ exit_code = 1

\* --------------------------------------------------- scripts/watch.py
\* A path is a tuple of parts, a part a tuple of characters.
NameMainTex == <<"m", "a", "i", "n", ".", "t", "e", "x">>
NameRefsBib == <<"r", "e", "f", "s", ".", "b", "i", "b">>
DirBuild == <<"b", "u", "i", "l", "d">>
DirGit == <<".", "g", "i", "t">>
DirPycache == <<"_", "_", "p", "y", "c", "a", "c", "h", "e", "_", "_">>
DirNodeModules == <<"n", "o", "d", "e", "_", "m", "o", "d", "u", "l", "e", "s">>

NameDirTex == <<"d", ".", "t", "e", "x">>
NameHiddenTex == <<".", "a", ".", "t", "e", "x">>
NameSwapTex == <<"~", "a", ".", "t", "e", "x">>
NameText == <<"a", ".", "t", "x", "t">>
NameUpperTex == <<"A", ".", "T", "E", "X">>

\* event.is_directory and Path(event.src_path).parts of an event for f
PathOf(f) ==
    CASE f = "main" -> [is_directory |-> FALSE, parts |-> <<NameMainTex>>]
      [] f = "bib" -> [is_directory |-> FALSE, parts |-> <<NameRefsBib>>]
      [] f = "built" -> [is_directory |-> FALSE, parts |-> <<DirBuild, NameMainTex>>]
      [] f = "dir" -> [is_directory |-> TRUE, parts |-> <<NameDirTex>>]
      [] f = "hidden" -> [is_directory |-> FALSE, parts |-> <<NameHiddenTex>>]
      [] f = "swap" -> [is_directory |-> FALSE, parts |-> <<NameSwapTex>>]
      [] f = "text" -> [is_directory |-> FALSE, parts |-> <<NameText>>]
      [] f = "upper" -> [is_directory |-> FALSE, parts |-> <<NameUpperTex>>]

\* self.watch_extensions
watch_extensions ==
    {<<".", "t", "e", "x">>, <<".", "c", "l", "s">>,
     <<".", "s", "t", "y">>, <<".", "b", "i", "b">>}

\* self.ignore_dirs
ignore_dirs == {DirBuild, DirGit, DirPycache, DirNodeModules}

\* Path.name
PathName(path) == path.parts[Len(path.parts)]

\* str.rfind('.') as a 1-based index, 0 when there is no dot
LastDot(name) ==
    LET dots == {i \in 1..Len(name) : name[i] = "."}
    IN IF dots = {} THEN 0 ELSE CHOOSE i \in dots : \A j \in dots : j <= i

\* Path.suffix: from the last dot, unless the dot is first or last
PathSuffix(path) ==
    LET name == PathName(path)
        i == LastDot(name)
    IN IF 1 < i /\ i < Len(name) THEN SubSeq(name, i, Len(name)) ELSE <<>>

\* str.endswith(suffix)
EndsWith(str, suffix) ==
    /\ Len(suffix) <= Len(str)
    /\ SubSeq(str, Len(str) - Len(suffix) + 1, Len(str)) = suffix

\* `ignore_dir in file_path.parts` for some ignore_dir
InIgnoredDir(path) ==
    \E d \in ignore_dirs : \E i \in 1..Len(path.parts) : path.parts[i] = d

\* LaTeXFileHandler.should_ignore_event
should_ignore_event_HiddenPass(path) ==
    \/ path.is_directory
    \/ InIgnoredDir(path)
    \/ Lower(PathSuffix(path)) \notin watch_extensions

should_ignore_event(path) ==
    \/ path.is_directory
    \/ InIgnoredDir(path)
    \/ Lower(PathSuffix(path)) \notin watch_extensions
    \/ StartsWith(PathName(path), ".")
    \/ StartsWith(PathName(path), "~")

\* SimpleFileWatcher.scan_files: the stamp of every existing file that
\* rglob('*' + ext) finds for a watched ext outside the ignored
\* directories; -1 for a path that is not a key of the result
scan_files(tree) ==
    [f \in DOMAIN tree |->
        IF /\ tree[f] > 0
           /\ \E ext \in watch_extensions : EndsWith(PathName(PathOf(f)), ext)
           /\ ~InIgnoredDir(PathOf(f))
        THEN tree[f] ELSE -1]

\* a thread is inside LaTeXFileHandler.compile_document
InCompile(t) == wpc[t] \in {"cd_last", "cd_pending", "cd_run"}

\* schedule_compile's test `current_time - self.last_compile < self.compile_delay`
TooSoon(t) == current_time[t] - last_compile < compile_delay

\* check_pending_compile's test `current_time - self.last_compile >= self.compile_delay`
DelayElapsed(t) == current_time[t] - last_compile >= compile_delay

\* schedule_compile when the test holds: `self.pending_compile = True`
PendingWhenTooSoon_Dropped(pending) == pending

PendingWhenTooSoon(pending) == TRUE

\* how the subprocess.run of scripts/compile.py can end in
\* LaTeXFileHandler.compile_document: returncode 0, another returncode,
\* subprocess.TimeoutExpired after 300 s, another exception
SubprocessOutcomes == {"zero", "nonzero", "timeout", "raised"}

\* where a thread is after the try/except of compile_document: both
\* branches of the if and both except clauses only print, so the call
\* returns to its caller (position back) whatever the outcome
AfterSubprocess_Uncaught(o, back) == IF o = "raised" THEN "crashed" ELSE back

AfterSubprocess(o, back) == back

\* the event a thread holds after its handler call returned: the observer
\* drops it, SimpleFileWatcher.start still reads its path
EventAfterReturn(t) == IF t = "observer" THEN NoEvent ELSE event[t]

\* the event a thread holds once on_modified/on_created has printed its
\* path and called schedule_compile: nothing of the handler reads it again
EventAfterFilter(t) == EventAfterReturn(t)

WatchInit ==
    /\ WATCHDOG_AVAILABLE \in BOOLEAN
    /\ now = 0
    /\ last_compile = 0
    /\ pending_compile = FALSE
    /\ wpc = [t \in Threads |-> IF t = "main" THEN "validate" ELSE "not_started"]
    /\ current_time = [t \in Threads |-> 0]
    /\ return_to = [t \in Threads |-> "none"]
    /\ event = [t \in Threads |-> NoEvent]
    /\ wake = 0
    /\ observer_started = FALSE
    /\ queue = <<>>
    /\ fs \in [Files -> {0, 1}]
    /\ fs["built"] = 1
    /\ changes = 0
    /\ file_mtimes = [f \in Files |-> -1]
    /\ current_files = [f \in Files |-> -1]
    /\ todo = {}
    /\ watch_ret = "none"
    /\ burst_start = -1
    /\ burst_ok = TRUE
    /\ burst_compiles = 0
    /\ arrived_during = "none"
    /\ completed_at = -1
    /\ last_outcome = "none"
    /\ owed = FALSE
    \* no compile.py call is under way in this process
    /\ cpc = "idle"
    /\ main_exists = FALSE
    /\ quick = FALSE
    /\ clean_first = FALSE
    /\ has_biber = FALSE
    /\ build_exists = FALSE
    /\ build_created = FALSE
    /\ pdf_exists = FALSE
    /\ log = NoLog
    /\ compilation_steps = <<>>
    /\ success = FALSE
    /\ errors = <<>>
    /\ warnings = <<>>
    /\ ret = "none"
    /\ exit_code = -1
    /\ calls = <<>>
    /\ apc = "idle"
    /\ a_text = NoLog
    /\ a_other = NoLog
    /\ a_errors = <<>>
    /\ a_warnings = <<>>
    /\ a_first = <<(<<>>), (<<>>)>>
    /\ rpc = "idle"
    /\ r_i = 0
    /\ r_calls = <<>>
    /\ r_build_exists = FALSE
    /\ r_build_created = FALSE
    /\ r_pdf = FALSE
    /\ r_ret = "none"
    \* no cleaning is under way
    /\ kpc = "idle"
    /\ clean_args = [clean_build |-> TRUE, clean_temp |-> TRUE,
                     clean_cache |-> FALSE, keep_pdf |-> TRUE,
                     recursive |-> TRUE, dry_run |-> FALSE]
    /\ disk0 = {}
    /\ disk = {}
    /\ denied = {}
    /\ candidates = <<>>
    /\ files_removed = 0
    /\ dirs_removed = 0
    /\ total_files_removed = 0
    /\ total_dirs_removed = 0
    /\ attempted = {}
    /\ printed = <<>>
    /\ clean_exit = -1
    \* no release is being created
    /\ mpc = "idle"
    /\ version = <<>>
    /\ dry_run = FALSE
    /\ branch = "main"
    /\ wd_clean = FALSE
    /\ structure_valid = FALSE
    /\ local_tags0 = {}
    /\ local_tags = {}
    /\ remote_tags = {}
    /\ git_calls = <<>>
    /\ create_ret = "none"
    \* no pair of sessions is compared
    /\ b_now = 0
    /\ b_tree = [p \in BackendPaths |-> 0]
    /\ b_changes = 0
    /\ b_unseen = FALSE
    /\ wd = [last_compile |-> 0, pending_compile |-> FALSE, compiles |-> 0]
    /\ po = [last_compile |-> 0, pending_compile |-> FALSE, compiles |-> 0]
    /\ b_mtimes = [p \in BackendPaths |-> -1]

\* watch_files: `if not main_path.exists(): return False`, then the handler
\* is built and `handler.compile_document()` is called
WatchValidate ==
    /\ wpc["main"] = "validate"
    /\ IF fs["main"] = 0
       THEN /\ watch_ret' = "False"
            /\ wpc' = [wpc EXCEPT !["main"] = "returned"]
            /\ UNCHANGED return_to
       ELSE /\ wpc' = [wpc EXCEPT !["main"] = "cd_last"]
            /\ return_to' = [return_to EXCEPT !["main"] = "start_backend"]
            /\ UNCHANGED watch_ret
    /\ UNCHANGED <<ovars, cvars, avars, rvars, nvars, WATCHDOG_AVAILABLE, hvars, current_time, event, wake,
                   observer_started, pvars, evars, gvars>>

\* compile_document: `self.last_compile = time.time()`
CompileSetLast(t) ==
    /\ wpc[t] = "cd_last"
    /\ last_compile' = now
    /\ wpc' = [wpc EXCEPT ![t] = "cd_pending"]
    /\ burst_compiles' = IF burst_start >= 0 /\ burst_ok
                         THEN burst_compiles + 1 ELSE burst_compiles
    /\ UNCHANGED <<ovars, cvars, avars, rvars, nvars, WATCHDOG_AVAILABLE, pending_compile, current_time, return_to,
                   event, wake, observer_started, pvars, evars, watch_ret,
                   burst_start, burst_ok>>

\* compile_document: `self.pending_compile = False`, then subprocess.run
\* starts scripts/compile.py
SubprocessStarts(t) ==
    /\ wpc[t] = "cd_pending"
    /\ pending_compile' = FALSE
    /\ wpc' = [wpc EXCEPT ![t] = "cd_run"]
    /\ completed_at' = -1
    /\ UNCHANGED <<ovars, cvars, avars, rvars, WATCHDOG_AVAILABLE, last_compile,
                   current_time, return_to, event, wake, observer_started, pvars,
                   evars, watch_ret, gvars, arrived_during, last_outcome>>

\* the start of a compile in a watch session
CompileResetPending(t) == SubprocessStarts(t) /\ UNCHANGED owed

\* the start of a compile, which settles the accepted events before it
CompileResetPendingTracked(t) == SubprocessStarts(t) /\ owed' = FALSE

\* compile_document: subprocess.run ends with outcome o (exit 0, exit
\* non-zero, timeout or another exception, all caught) and compile_document
\* returns, and with it schedule_compile and on_created/on_modified, or
\* check_pending_compile
SubprocessEnds(t, o) ==
    /\ wpc[t] = "cd_run"
    /\ wpc' = [wpc EXCEPT ![t] = AfterSubprocess(o, return_to[t])]
    /\ event' = [event EXCEPT ![t] = EventAfterReturn(t)]
    /\ IF arrived_during = t
       THEN /\ completed_at' = now
            /\ arrived_during' = "none"
       ELSE UNCHANGED <<completed_at, arrived_during>>
    /\ UNCHANGED <<ovars, cvars, avars, rvars, WATCHDOG_AVAILABLE, hvars, current_time,
                   return_to, wake, observer_started, pvars, evars, watch_ret,
                   gvars>>

\* the end of a compile in a watch session
CompileFinish(t) ==
    /\ \E o \in SubprocessOutcomes : SubprocessEnds(t, o)
    /\ UNCHANGED <<last_outcome, owed>>

\* the end of a compile, its outcome kept as history
CompileFinishRecorded(t) ==
    \E o \in SubprocessOutcomes :
        /\ SubprocessEnds(t, o)
        /\ last_outcome' = o
        /\ UNCHANGED owed

\* watch_files: observer.schedule/start with watchdog, else
\* SimpleFileWatcher('.', handler).start() up to its first scan_files()
StartBackend ==
    /\ wpc["main"] = "start_backend"
    /\ IF WATCHDOG_AVAILABLE
       THEN /\ observer_started' = TRUE
            /\ wpc' = [wpc EXCEPT !["main"] = "wd_loop", !["observer"] = "obs_idle"]
            /\ UNCHANGED file_mtimes
       ELSE /\ file_mtimes' = scan_files(fs)
            /\ wpc' = [wpc EXCEPT !["main"] = "poll_loop"]
            /\ UNCHANGED observer_started
    /\ UNCHANGED <<ovars, cvars, avars, rvars, nvars, WATCHDOG_AVAILABLE, hvars, current_time, return_to, event,
                   wake, current_files, todo, evars, watch_ret, gvars>>

\* both loops: `time.sleep(1)` begins
SleepStart ==
    /\ wpc["main"] \in {"wd_loop", "poll_loop"}
    /\ wake' = now + 1
    /\ wpc' = [wpc EXCEPT !["main"] =
                 IF wpc["main"] = "wd_loop" THEN "wd_sleeping" ELSE "poll_sleeping"]
    /\ UNCHANGED <<ovars, cvars, avars, rvars, nvars, WATCHDOG_AVAILABLE, hvars, current_time, return_to, event,
                   observer_started, pvars, evars, watch_ret, gvars>>

\* watch_files' loop: sleep ends, `handler.check_pending_compile()` is called
WatchdogWake ==
    /\ wpc["main"] = "wd_sleeping"
    /\ now >= wake
    /\ wake' = 0
    /\ wpc' = [wpc EXCEPT !["main"] = "cp_pending"]
    /\ return_to' = [return_to EXCEPT !["main"] = "wd_loop"]
    /\ UNCHANGED <<ovars, cvars, avars, rvars, nvars, WATCHDOG_AVAILABLE, hvars, current_time, event,
                   observer_started, pvars, evars, watch_ret, gvars>>

\* SimpleFileWatcher.start: sleep ends, `current_files = self.scan_files()`
PollScan ==
    /\ wpc["main"] = "poll_sleeping"
    /\ now >= wake
    /\ current_files' = scan_files(fs)
    /\ todo' = {f \in Files : scan_files(fs)[f] # -1}
    /\ wake' = 0
    /\ wpc' = [wpc EXCEPT !["main"] = "poll_for"]
    /\ UNCHANGED <<ovars, cvars, avars, rvars, nvars, WATCHDOG_AVAILABLE, hvars, current_time, return_to, event,
                   observer_started, file_mtimes, evars, watch_ret, gvars>>

\* SimpleFileWatcher.start: one iteration of `for file_path, mtime in
\* current_files.items()` up to the handler call, or the end of the loop
\* and the call of handler.check_pending_compile()
PollFor ==
    /\ wpc["main"] = "poll_for"
    /\ IF todo = {}
       THEN /\ wpc' = [wpc EXCEPT !["main"] = "cp_pending"]
            /\ return_to' = [return_to EXCEPT !["main"] = "poll_loop"]
            /\ UNCHANGED <<event, todo>>
       ELSE \E f \in todo :
            /\ todo' = todo \ {f}
            /\ IF file_mtimes[f] = -1
               THEN /\ event' = [event EXCEPT !["main"] = Event("created", f)]
                    /\ wpc' = [wpc EXCEPT !["main"] = "on_event"]
                    /\ return_to' = [return_to EXCEPT !["main"] = "poll_update"]
               ELSE IF current_files[f] > file_mtimes[f]
               THEN /\ event' = [event EXCEPT !["main"] = Event("modified", f)]
                    /\ wpc' = [wpc EXCEPT !["main"] = "on_event"]
                    /\ return_to' = [return_to EXCEPT !["main"] = "poll_update"]
               ELSE UNCHANGED <<event, wpc, return_to>>
    /\ UNCHANGED <<ovars, cvars, avars, rvars, nvars, WATCHDOG_AVAILABLE, hvars, current_time, wake,
                   observer_started, file_mtimes, current_files, evars,
                   watch_ret, gvars>>

\* SimpleFileWatcher.start: `self.file_mtimes[file_path] = mtime` after the
\* handler call
PollUpdate ==
    /\ wpc["main"] = "poll_update"
    /\ file_mtimes' = [file_mtimes EXCEPT ![event["main"].file] =
                          current_files[event["main"].file]]
    /\ event' = [event EXCEPT !["main"] = NoEvent]
    /\ wpc' = [wpc EXCEPT !["main"] = "poll_for"]
    /\ UNCHANGED <<ovars, cvars, avars, rvars, nvars, WATCHDOG_AVAILABLE, hvars, current_time, return_to, wake,
                   observer_started, current_files, todo, evars, watch_ret, gvars>>

\* the observer thread takes the next event and calls the handler's
\* on_created or on_modified
ObserverDispatch ==
    /\ wpc["observer"] = "obs_idle"
    /\ queue # <<>>
    /\ event' = [event EXCEPT !["observer"] = Head(queue)]
    /\ queue' = Tail(queue)
    /\ wpc' = [wpc EXCEPT !["observer"] = "on_event"]
    /\ return_to' = [return_to EXCEPT !["observer"] = "obs_idle"]
    /\ UNCHANGED <<ovars, cvars, avars, rvars, nvars, WATCHDOG_AVAILABLE, hvars, current_time, wake,
                   observer_started, pvars, now, fs, changes, watch_ret, gvars>>

\* on_modified / on_created: `if self.should_ignore_event(event): return`,
\* else schedule_compile() is entered and runs `current_time = time.time()`
HandlerCalled(t) ==
    /\ wpc[t] = "on_event"
    /\ IF should_ignore_event(PathOf(event[t].file))
       THEN /\ wpc' = [wpc EXCEPT ![t] = return_to[t]]
            /\ event' = [event EXCEPT ![t] = EventAfterReturn(t)]
            /\ UNCHANGED <<current_time, burst_start, burst_ok, burst_compiles>>
       ELSE /\ wpc' = [wpc EXCEPT ![t] = "sc_check"]
            /\ event' = [event EXCEPT ![t] = EventAfterFilter(t)]
            /\ current_time' = [current_time EXCEPT ![t] = now]
            /\ IF burst_start = -1
               THEN /\ burst_start' = now
                    /\ UNCHANGED <<burst_ok, burst_compiles>>
               ELSE IF burst_ok /\ now < burst_start + compile_delay
               THEN UNCHANGED <<burst_start, burst_ok, burst_compiles>>
               ELSE /\ burst_start' = 0
                    /\ burst_ok' = FALSE
                    /\ burst_compiles' = 0
    /\ UNCHANGED <<ovars, cvars, avars, rvars, arrived_during, completed_at,
                   last_outcome, WATCHDOG_AVAILABLE, hvars, return_to, wake,
                   observer_started, pvars, evars, watch_ret>>

\* a handler call in a watch session
OnEvent(t) == HandlerCalled(t) /\ UNCHANGED owed

\* a handler call; an event that passes the filter is owed a compile
OnEventTracked(t) ==
    /\ HandlerCalled(t)
    /\ owed' = (owed \/ ~should_ignore_event(PathOf(event[t].file)))

\* schedule_compile: `if current_time - self.last_compile <
\* self.compile_delay: self.pending_compile = True; return`, else
\* compile_document() is entered
ScheduleCheck(t) ==
    /\ wpc[t] = "sc_check"
    /\ IF TooSoon(t)
       THEN /\ pending_compile' = PendingWhenTooSoon(pending_compile)
            /\ wpc' = [wpc EXCEPT ![t] = return_to[t]]
            /\ event' = [event EXCEPT ![t] = EventAfterReturn(t)]
       ELSE /\ wpc' = [wpc EXCEPT ![t] = "cd_last"]
            /\ UNCHANGED <<pending_compile, event>>
    /\ current_time' = [current_time EXCEPT ![t] = 0]
    /\ arrived_during' = IF \E u \in Threads \ {t} : InCompile(u)
                         THEN CHOOSE u \in Threads \ {t} : InCompile(u)
                         ELSE arrived_during
    /\ UNCHANGED <<ovars, cvars, avars, rvars, WATCHDOG_AVAILABLE, last_compile,
                   return_to, wake, observer_started, pvars, evars, watch_ret,
                   gvars, completed_at, last_outcome, owed>>

\* check_pending_compile: `if self.pending_compile:` and, if it is set,
\* `current_time = time.time()`
CheckPendingFlag(t) ==
    /\ wpc[t] = "cp_pending"
    /\ wpc' = [wpc EXCEPT ![t] = IF pending_compile THEN "cp_check" ELSE return_to[t]]
    /\ current_time' = [current_time EXCEPT ![t] = IF pending_compile THEN now ELSE 0]
    /\ UNCHANGED <<ovars, cvars, avars, rvars, nvars, WATCHDOG_AVAILABLE, hvars, return_to, event,
                   wake, observer_started, pvars, evars, watch_ret, gvars>>

\* check_pending_compile: `if current_time - self.last_compile >=
\* self.compile_delay: self.compile_document()`
CheckPendingCompare(t) ==
    /\ wpc[t] = "cp_check"
    /\ wpc' = [wpc EXCEPT ![t] = IF DelayElapsed(t) THEN "cd_last" ELSE return_to[t]]
    /\ current_time' = [current_time EXCEPT ![t] = 0]
    /\ UNCHANGED <<ovars, cvars, avars, rvars, nvars, WATCHDOG_AVAILABLE, hvars, return_to, event, wake,
                   observer_started, pvars, evars, watch_ret, gvars>>

\* polling backend: the user's editor creates or rewrites a file of the
\* tree, which the next scan_files() will see
FileChange(f) ==
    /\ ~WATCHDOG_AVAILABLE
    /\ changes < MaxChanges
    /\ wpc["main"] # "returned"
    /\ changes' = changes + 1
    /\ fs' = [fs EXCEPT ![f] = fs[f] + 1]
    /\ UNCHANGED <<ovars, cvars, avars, rvars, nvars, WATCHDOG_AVAILABLE, hvars, tvars, wake,
                   observer_started, pvars, now, queue, watch_ret, gvars>>

\* watchdog backend: a file of the tree is created or modified and the
\* started observer queues the event
WatchdogEvent(p) ==
    /\ observer_started
    /\ changes < MaxChanges
    /\ Len(queue) < MaxQueue
    /\ changes' = changes + 1
    /\ \E kind \in {"created", "modified"} : queue' = Append(queue, Event(kind, p))
    /\ UNCHANGED <<ovars, cvars, avars, rvars, nvars, WATCHDOG_AVAILABLE, hvars, tvars, wake,
                   observer_started, pvars, now, fs, watch_ret, gvars>>

\* a second passes
Tick ==
    /\ now < MaxTime
    /\ wpc["main"] # "returned"
    /\ now' = now + 1
    /\ UNCHANGED <<ovars, cvars, avars, rvars, nvars, WATCHDOG_AVAILABLE, hvars, tvars, wake, observer_started,
                   pvars, fs, queue, changes, watch_ret, gvars>>

WatchNext ==
    \/ WatchValidate
    \/ StartBackend
    \/ SleepStart
    \/ WatchdogWake
    \/ PollScan
    \/ PollFor
    \/ PollUpdate
    \/ ObserverDispatch
    \/ \E t \in Threads : OnEvent(t)
    \/ \E t \in Threads : ScheduleCheck(t)
    \/ \E t \in Threads : CompileSetLast(t)
    \/ \E t \in Threads : CompileResetPending(t)
    \/ \E t \in Threads : CompileFinish(t)
    \/ \E t \in Threads : CheckPendingFlag(t)
    \/ \E t \in Threads : CheckPendingCompare(t)
    \/ \E f \in Files : FileChange(f)
    \/ \E p \in Files : WatchdogEvent(p)
    \/ Tick

\* ------------------------- scripts/watch.py: the handler under any caller
\* LaTeXFileHandler as both backends use it: built by watch_files, which
\* calls its compile_document() once, then called from one thread with
\* on_created/on_modified for any path and with check_pending_compile()
HandlerInit ==
    /\ WATCHDOG_AVAILABLE = FALSE
    /\ now = 0
    /\ last_compile = 0
    /\ pending_compile = FALSE
    /\ wpc = [t \in Threads |-> IF t = "main" THEN "cd_last" ELSE "not_started"]
    /\ current_time = [t \in Threads |-> 0]
    /\ return_to = [t \in Threads |-> IF t = "main" THEN "caller" ELSE "none"]
    /\ event = [t \in Threads |-> NoEvent]
    /\ wake = 0
    /\ observer_started = FALSE
    /\ queue = <<>>
    /\ fs = [f \in Files |-> 1]
    /\ changes = 0
    /\ file_mtimes = [f \in Files |-> -1]
    /\ current_files = [f \in Files |-> -1]
    /\ todo = {}
    /\ watch_ret = "none"
    /\ burst_start = -1
    /\ burst_ok = TRUE
    /\ burst_compiles = 0
    /\ arrived_during = "none"
    /\ completed_at = -1
    /\ last_outcome = "none"
    /\ owed = FALSE
    \* no compile.py call, no analysis, no release test are under way
    /\ cpc = "idle"
    /\ main_exists = FALSE
    /\ quick = FALSE
    /\ clean_first = FALSE
    /\ has_biber = FALSE
    /\ build_exists = FALSE
    /\ build_created = FALSE
    /\ pdf_exists = FALSE
    /\ log = NoLog
    /\ compilation_steps = <<>>
    /\ success = FALSE
    /\ errors = <<>>
    /\ warnings = <<>>
    /\ ret = "none"
    /\ exit_code = -1
    /\ calls = <<>>
    /\ apc = "idle"
    /\ a_text = NoLog
    /\ a_other = NoLog
    /\ a_errors = <<>>
    /\ a_warnings = <<>>
    /\ a_first = <<(<<>>), (<<>>)>>
    /\ rpc = "idle"
    /\ r_i = 0
    /\ r_calls = <<>>
    /\ r_build_exists = FALSE
    /\ r_build_created = FALSE
    /\ r_pdf = FALSE
    /\ r_ret = "none"
    \* no cleaning is under way
    /\ kpc = "idle"
    /\ clean_args = [clean_build |-> TRUE, clean_temp |-> TRUE,
                     clean_cache |-> FALSE, keep_pdf |-> TRUE,
                     recursive |-> TRUE, dry_run |-> FALSE]
    /\ disk0 = {}
    /\ disk = {}
    /\ denied = {}
    /\ candidates = <<>>
    /\ files_removed = 0
    /\ dirs_removed = 0
    /\ total_files_removed = 0
    /\ total_dirs_removed = 0
    /\ attempted = {}
    /\ printed = <<>>
    /\ clean_exit = -1
    \* no release is being created
    /\ mpc = "idle"
    /\ version = <<>>
    /\ dry_run = FALSE
    /\ branch = "main"
    /\ wd_clean = FALSE
    /\ structure_valid = FALSE
    /\ local_tags0 = {}
    /\ local_tags = {}
    /\ remote_tags = {}
    /\ git_calls = <<>>
    /\ create_ret = "none"
    \* no pair of sessions is compared
    /\ b_now = 0
    /\ b_tree = [p \in BackendPaths |-> 0]
    /\ b_changes = 0
    /\ b_unseen = FALSE
    /\ wd = [last_compile |-> 0, pending_compile |-> FALSE, compiles |-> 0]
    /\ po = [last_compile |-> 0, pending_compile |-> FALSE, compiles |-> 0]
    /\ b_mtimes = [p \in BackendPaths |-> -1]

\* the caller invokes handler.on_created(event) or handler.on_modified(event)
Deliver(p) ==
    /\ wpc["main"] = "caller"
    /\ changes < MaxChanges
    /\ changes' = changes + 1
    /\ \E kind \in {"created", "modified"} :
            event' = [event EXCEPT !["main"] = Event(kind, p)]
    /\ wpc' = [wpc EXCEPT !["main"] = "on_event"]
    /\ return_to' = [return_to EXCEPT !["main"] = "caller"]
    /\ UNCHANGED <<ovars, cvars, avars, rvars, nvars, WATCHDOG_AVAILABLE, hvars,
                   current_time, wake, observer_started, pvars, now, fs, queue,
                   watch_ret, gvars>>

\* the caller invokes handler.check_pending_compile(), holding no event
CallCheckPending ==
    /\ wpc["main"] = "caller"
    /\ wpc' = [wpc EXCEPT !["main"] = "cp_pending"]
    /\ return_to' = [return_to EXCEPT !["main"] = "caller"]
    /\ event' = [event EXCEPT !["main"] = NoEvent]
    /\ UNCHANGED <<ovars, cvars, avars, rvars, nvars, WATCHDOG_AVAILABLE, hvars,
                   current_time, wake, observer_started, pvars, evars,
                   watch_ret, gvars>>

HandlerNext ==
    \/ \E p \in Files \cup OtherPaths : Deliver(p)
    \/ CallCheckPending
    \/ OnEvent("main")
    \/ ScheduleCheck("main")
    \/ CompileSetLast("main")
    \/ CompileResetPending("main")
    \/ CompileFinishRecorded("main")
    \/ CheckPendingFlag("main")
    \/ CheckPendingCompare("main")
    \/ Tick

\* ---------------------------------------- properties of scripts/watch.py
\* C1: at most one execution of LaTeXFileHandler.compile_document is in
\* flight at any time, with the watchdog backend and with the polling one.
C1_SingleFlight == Cardinality({t \in Threads : InCompile(t)}) <= 1

\* C2: a burst of accepted change events that all arrive within one
\* compile_delay window starts one compile and at most one more after it,
\* however many events the burst has.
C2_BurstCoalesced == (burst_start >= 0 /\ burst_ok) => burst_compiles <= 2

\* C17: the session's first accepted event arrives while the loop is idle;
\* the compile it leads to does not start at once but only when
\* compile_delay has elapsed since that event, further accepted events
\* inside the window not restarting the timer.
C17_DebounceWindow ==
    (burst_start >= 0 /\ burst_ok /\ burst_compiles >= 1) =>
        last_compile >= burst_start + compile_delay

\* C18: when a compile completes during which accepted events arrived, the
\* pending flag is set and a fresh window opens: the next compile starts
\* no sooner than compile_delay after the completion.
C18_FreshWindowAfterCompile ==
    completed_at >= 0 =>
        /\ pending_compile
        /\ \A t \in Threads :
              wpc[t] = "cd_pending" => last_compile >= completed_at + compile_delay

\* C19: whatever the outcome of a compile (exit 0, non-zero exit, timeout,
\* another exception), compile_document returns and the loop that called
\* the handler keeps running: the thread does not die, and a later
\* accepted event is still handled.
C19_LoopSurvivesCompile ==
    last_outcome # "none" =>
        /\ wpc["main"] \notin {"crashed", "returned"}
        /\ watch_ret = "none"
        /\ (wpc["main"] = "cd_run" \/ return_to["main"] = "caller")

C19_Witness ==
    /\ last_outcome = "raised"
    /\ wpc["main"] = "cd_run"
    /\ event["main"] # NoEvent
    /\ ~should_ignore_event(PathOf(event["main"].file))
    /\ changes >= 1

\* the claim's four reasons to ignore an event
ClaimedIgnored(path) ==
    \/ path.is_directory
    \/ \E i \in 1..(Len(path.parts) - 1) :
          path.parts[i] \in {DirBuild, DirGit, DirPycache, DirNodeModules}
    \/ PathName(path)[1] \in {".", "~"}
    \/ Lower(PathSuffix(path)) \notin
          {<<".", "t", "e", "x">>, <<".", "c", "l", "s">>,
           <<".", "s", "t", "y">>, <<".", "b", "i", "b">>}

\* C20: an event that is a directory event, or lies inside an ignored
\* directory, or whose file name starts with '.' or '~', or whose extension
\* is not .tex, .cls, .sty or .bib, returns to the caller with no compile
\* scheduled and pending_compile untouched; every other created/modified
\* event enters schedule_compile, which sets pending_compile or starts a
\* compile.
C20_EventFilter ==
    [][/\ (wpc["main"] = "on_event" /\ wpc'["main"] # "on_event") =>
            IF ClaimedIgnored(PathOf(event["main"].file))
            THEN /\ wpc'["main"] = return_to["main"]
                 /\ pending_compile' = pending_compile
                 /\ last_compile' = last_compile
            ELSE wpc'["main"] = "sc_check"
        /\ (wpc["main"] = "sc_check" /\ wpc'["main"] # "sc_check") =>
            (pending_compile' \/ wpc'["main"] = "cd_last")]_vars

C20_Witness ==
    /\ wpc["main"] = "caller"
    /\ event["main"] = Event("created", "hidden")
    /\ changes = 3
    /\ burst_start >= 0
    /\ burst_compiles = 1
    /\ ~pending_compile

\* thread t takes the step of compile_document that stamps last_compile,
\* in a compile other than the initial one of watch_files
StartsLaterCompile(t) ==
    /\ wpc[t] = "cd_last"
    /\ wpc'[t] = "cd_pending"
    /\ return_to[t] # "start_backend"

\* C26: in both backends two consecutive compile starts are at least
\* compile_delay seconds apart.
C26_RateLimited ==
    [][\A t \in Threads :
          StartsLaterCompile(t) => last_compile' - last_compile >= compile_delay]_vars

\* the same in the polling backend alone
C26_RateLimitedPolling ==
    [][\A t \in Threads :
          (StartsLaterCompile(t) /\ ~WATCHDOG_AVAILABLE) =>
              last_compile' - last_compile >= compile_delay]_vars

\* ------------- scripts/watch.py: a watch session with its accepted events
\* the watch session of SpecWatch, in which an accepted event is recorded
\* as owed a compile until scripts/compile.py is next started
TrackedNext ==
    \/ WatchValidate
    \/ StartBackend
    \/ SleepStart
    \/ WatchdogWake
    \/ PollScan
    \/ PollFor
    \/ PollUpdate
    \/ ObserverDispatch
    \/ \E t \in Threads : OnEventTracked(t)
    \/ \E t \in Threads : ScheduleCheck(t)
    \/ \E t \in Threads : CompileSetLast(t)
    \/ \E t \in Threads : CompileResetPendingTracked(t)
    \/ \E t \in Threads : CompileFinish(t)
    \/ \E t \in Threads : CheckPendingFlag(t)
    \/ \E t \in Threads : CheckPendingCompare(t)
    \/ \E f \in Files : FileChange(f)
    \/ \E p \in Files : WatchdogEvent(p)
    \/ Tick

\* thread t is between the acceptance of an event and the start of
\* scripts/compile.py: before schedule_compile's test, or in
\* compile_document before subprocess.run
OnItsWayToCompile(t) == wpc[t] \in {"sc_check", "cd_last", "cd_pending"}

Stamps == 1..(MaxChanges + 1)

\* a watch session with the polling backend
PollInit == WatchInit /\ ~WATCHDOG_AVAILABLE

\* a file of the tree is deleted, renamed or moved away
FileRemove(f) ==
    /\ ~WATCHDOG_AVAILABLE
    /\ changes < MaxChanges
    /\ wpc["main"] # "returned"
    /\ fs[f] > 0
    /\ changes' = changes + 1
    /\ fs' = [fs EXCEPT ![f] = 0]
    /\ UNCHANGED <<ovars, cvars, avars, rvars, nvars, WATCHDOG_AVAILABLE, hvars,
                   tvars, wake, observer_started, pvars, now, queue, watch_ret,
                   gvars>>

\* a file appears with the stamp m: written anew, or moved, copied or
\* restored into the tree with the stamp it had
FileAppear(f, m) ==
    /\ ~WATCHDOG_AVAILABLE
    /\ changes < MaxChanges
    /\ wpc["main"] # "returned"
    /\ fs[f] = 0
    /\ changes' = changes + 1
    /\ fs' = [fs EXCEPT ![f] = m]
    /\ UNCHANGED <<ovars, cvars, avars, rvars, nvars, WATCHDOG_AVAILABLE, hvars,
                   tvars, wake, observer_started, pvars, now, queue, watch_ret,
                   gvars>>

PollNext ==
    \/ WatchValidate
    \/ StartBackend
    \/ SleepStart
    \/ PollScan
    \/ PollFor
    \/ PollUpdate
    \/ \E t \in Threads : OnEvent(t)
    \/ \E t \in Threads : ScheduleCheck(t)
    \/ \E t \in Threads : CompileSetLast(t)
    \/ \E t \in Threads : CompileResetPending(t)
    \/ \E t \in Threads : CompileFinish(t)
    \/ \E t \in Threads : CheckPendingFlag(t)
    \/ \E t \in Threads : CheckPendingCompare(t)
    \/ \E f \in Files : FileChange(f)
    \/ \E f \in Files : FileRemove(f)
    \/ \E f \in Files, m \in Stamps : FileAppear(f, m)
    \/ Tick

\* ---------------------------------------- properties of SimpleFileWatcher
\* what the scan before the one that begins observed: the scan of start()
\* before the first pass of the loop, the loop's last scan afterwards
LastObserved(f) ==
    IF return_to["main"] = "start_backend" THEN file_mtimes[f]
    ELSE current_files[f]

\* the loop's scan_files() call
ScanStep == wpc["main"] = "poll_sleeping" /\ wpc'["main"] = "poll_for"

\* the for loop visits f
VisitStep(f) == wpc["main"] = "poll_for" /\ f \in todo /\ f \notin todo'

\* the handler is called with an event of the given kind for f
Reports(kind, f) == wpc'["main"] = "on_event" /\ event'["main"] = Event(kind, f)

\* C30: the polling backend reports each observed change exactly once: when
\* a scan begins, file_mtimes holds what the previous scan observed; a file
\* the previous scan did not observe produces on_created, a larger stamp
\* on_modified, anything else no event; the stamp reported is recorded
\* before the next file is visited; the files of the first scan produce no
\* event.
C30_PollingReportsEachChangeOnce ==
    [][/\ ScanStep => \A f \in Files : file_mtimes[f] = LastObserved(f)
       /\ \A f \in Files : VisitStep(f) =>
             IF file_mtimes[f] = -1 THEN Reports("created", f)
             ELSE IF current_files[f] > file_mtimes[f] THEN Reports("modified", f)
             ELSE wpc'["main"] = "poll_for" /\ event' = event
       /\ (wpc["main"] = "poll_update" /\ wpc'["main"] # "poll_update") =>
             file_mtimes'[event["main"].file] = current_files[event["main"].file]
       /\ (/\ ~WATCHDOG_AVAILABLE
           /\ wpc["main"] = "start_backend"
           /\ wpc'["main"] # "start_backend") =>
             event' = event /\ wpc'["main"] = "poll_loop"]_vars

\* ------------------ scripts/watch.py: the two backends on the same changes
\* One session with the watchdog observer and one with SimpleFileWatcher
\* watch the same tree. Each runs its handler in one thread; a compile ends
\* within the second it starts in.
\* LaTeXFileHandler.compile_document at time t
HandlerCompile(h, t) ==
    [last_compile |-> t, pending_compile |-> FALSE, compiles |-> h.compiles + 1]

\* LaTeXFileHandler.schedule_compile at time t
HandlerSchedule(h, t) ==
    IF t - h.last_compile < compile_delay
    THEN [h EXCEPT !.pending_compile = TRUE]
    ELSE HandlerCompile(h, t)

\* LaTeXFileHandler.on_modified / on_created at time t
HandlerEvent(h, path, t) ==
    IF should_ignore_event(path) THEN h ELSE HandlerSchedule(h, t)

\* LaTeXFileHandler.check_pending_compile at time t
HandlerCheckPending(h, t) ==
    IF h.pending_compile /\ t - h.last_compile >= compile_delay
    THEN HandlerCompile(h, t)
    ELSE h

\* SimpleFileWatcher.start's MockEvent: `self.is_directory = False`
MockEvent(p) == [PathOf(p) EXCEPT !.is_directory = FALSE]

\* the paths SimpleFileWatcher.start calls the handler for after a scan
\* that returned cur: not in file_mtimes, or with a larger stamp
Reported(cur, mtimes) ==
    {p \in DOMAIN cur :
        cur[p] # -1 /\ (mtimes[p] = -1 \/ cur[p] > mtimes[p])}

\* the handler after the for loop of SimpleFileWatcher.start has called it
\* for every path of S
RECURSIVE HandleAll(_, _, _)
HandleAll(h, S, t) ==
    IF S = {} THEN h
    ELSE LET p == CHOOSE q \in S : TRUE
         IN  HandleAll(HandlerEvent(h, MockEvent(p), t), S \ {p}, t)

\* both sessions have started: watch_files has run the initial
\* compile_document(), SimpleFileWatcher.start its first scan_files()
BackendsInit ==
    /\ b_now = 0
    /\ b_tree \in [BackendPaths -> {0, 1}]
    /\ b_changes = 0
    /\ b_unseen = FALSE
    /\ wd = [last_compile |-> 0, pending_compile |-> FALSE, compiles |-> 1]
    /\ po = [last_compile |-> 0, pending_compile |-> FALSE, compiles |-> 1]
    /\ b_mtimes = scan_files(b_tree)
    \* no compile.py call is under way in this process
    /\ cpc = "idle"
    /\ main_exists = FALSE
    /\ quick = FALSE
    /\ clean_first = FALSE
    /\ has_biber = FALSE
    /\ build_exists = FALSE
    /\ build_created = FALSE
    /\ pdf_exists = FALSE
    /\ log = NoLog
    /\ compilation_steps = <<>>
    /\ success = FALSE
    /\ errors = <<>>
    /\ warnings = <<>>
    /\ ret = "none"
    /\ exit_code = -1
    /\ calls = <<>>
    \* no watch session is under way
    /\ WATCHDOG_AVAILABLE = FALSE
    /\ now = 0
    /\ last_compile = 0
    /\ pending_compile = FALSE
    /\ wpc = [t \in Threads |-> "idle"]
    /\ current_time = [t \in Threads |-> 0]
    /\ return_to = [t \in Threads |-> "none"]
    /\ event = [t \in Threads |-> NoEvent]
    /\ wake = 0
    /\ observer_started = FALSE
    /\ queue = <<>>
    /\ fs = [f \in Files |-> 0]
    /\ changes = 0
    /\ file_mtimes = [f \in Files |-> -1]
    /\ current_files = [f \in Files |-> -1]
    /\ todo = {}
    /\ watch_ret = "none"
    /\ burst_start = -1
    /\ burst_ok = TRUE
    /\ burst_compiles = 0
    /\ arrived_during = "none"
    /\ completed_at = -1
    /\ last_outcome = "none"
    /\ owed = FALSE
    \* no analysis on its own is under way
    /\ apc = "idle"
    /\ a_text = NoLog
    /\ a_other = NoLog
    /\ a_errors = <<>>
    /\ a_warnings = <<>>
    /\ a_first = <<(<<>>), (<<>>)>>
    \* no release test is under way
    /\ rpc = "idle"
    /\ r_i = 0
    /\ r_calls = <<>>
    /\ r_build_exists = FALSE
    /\ r_build_created = FALSE
    /\ r_pdf = FALSE
    /\ r_ret = "none"
    \* no cleaning is under way
    /\ kpc = "idle"
    /\ clean_args = [clean_build |-> TRUE, clean_temp |-> TRUE,
                     clean_cache |-> FALSE, keep_pdf |-> TRUE,
                     recursive |-> TRUE, dry_run |-> FALSE]
    /\ disk0 = {}
    /\ disk = {}
    /\ denied = {}
    /\ candidates = <<>>
    /\ files_removed = 0
    /\ dirs_removed = 0
    /\ total_files_removed = 0
    /\ total_dirs_removed = 0
    /\ attempted = {}
    /\ printed = <<>>
    /\ clean_exit = -1
    \* no release is being created
    /\ mpc = "idle"
    /\ version = <<>>
    /\ dry_run = FALSE
    /\ branch = "main"
    /\ wd_clean = FALSE
    /\ structure_valid = FALSE
    /\ local_tags0 = {}
    /\ local_tags = {}
    /\ remote_tags = {}
    /\ git_calls = <<>>
    /\ create_ret = "none"

\* a path of the tree is created or modified (for the directory: an entry
\* is added to it); the observer calls the watchdog session's handler
BackendsChange(p) ==
    /\ b_changes < MaxChanges
    /\ b_changes' = b_changes + 1
    /\ b_tree' = [b_tree EXCEPT ![p] = b_tree[p] + 1]
    /\ wd' = HandlerEvent(wd, PathOf(p), b_now)
    /\ b_unseen' = TRUE
    /\ UNCHANGED <<cvars, wvars, avars, rvars, kvars, mvars, b_now, po, b_mtimes>>

\* a second passes and both loops wake: watch_files calls
\* check_pending_compile(); SimpleFileWatcher.start scans, calls the handler
\* for what changed, records the stamps and calls check_pending_compile()
BackendsSecond ==
    /\ b_now < MaxTime
    /\ b_now' = b_now + 1
    /\ wd' = HandlerCheckPending(wd, b_now + 1)
    /\ LET cur == scan_files(b_tree)
           S == Reported(cur, b_mtimes)
       IN  /\ po' = HandlerCheckPending(HandleAll(po, S, b_now + 1), b_now + 1)
           /\ b_mtimes' = [p \in BackendPaths |->
                             IF p \in S THEN cur[p] ELSE b_mtimes[p]]
    /\ b_unseen' = FALSE
    /\ UNCHANGED <<cvars, wvars, avars, rvars, kvars, mvars, b_tree, b_changes>>

BackendsNext ==
    \/ \E p \in BackendPaths : BackendsChange(p)
    \/ BackendsSecond

\* -------------------------------------------- properties of the backends
\* every change has been scanned and neither handler has a compile pending
Settled == ~b_unseen /\ ~wd.pending_compile /\ ~po.pending_compile

\* C21: the two backends are behaviourally equivalent: fed the same
\* creations and modifications, both have started the same number of
\* compiles once every change is handled.
C21_BackendsEquivalent == Settled => wd.compiles = po.compiles

\* the same for changes of main.tex alone
C21_EquivalentOnMainTex ==
    (Settled /\ b_tree["upper"] = 0 /\ b_tree["dir"] = 0) =>
        wd.compiles = po.compiles

\* ------------------------------------------------- scripts/release.py
\* test_latex_compilation's list commands, by tool
commands == <<"pdflatex", "biber", "pdflatex">>

\* how run_command(cmd) can end: exit 0; a non-zero exit; biber's non-zero
\* exit with 'Cannot find control file' in its output; an exception of
\* subprocess.run (tool not installed), which run_command turns into (1, str(e))
ReleasePdflatexOutcomes == {"zero", "nonzero", "notfound"}

ReleaseBiberOutcomes == {"zero", "no_control_file", "nonzero", "notfound"}

\* `code != 0`
NonZeroCode(o) == o # "zero"

\* `"Cannot find control file" in output`
ReportsNoControlFile(o) == o = "no_control_file"

\* the loop body's decision `return False`:
\*   if code != 0 and i != 2:
\*       if "biber" in cmd[0] and "Cannot find control file" in output: continue
\*       return False
StepReturnsFalse(i, tool, o) ==
    /\ NonZeroCode(o) /\ i # 2
    /\ ~(tool = "biber" /\ ReportsNoControlFile(o))

ReleaseInit ==
    /\ rpc = "mkdir"
    /\ r_i = 0
    /\ r_calls = <<>>
    /\ r_build_exists \in BOOLEAN
    /\ r_build_created = FALSE
    /\ r_pdf \in BOOLEAN
    /\ (r_pdf => r_build_exists)
    /\ r_ret = "none"
    \* no compile.py call, no analysis, no watch session are under way
    /\ cpc = "idle"
    /\ main_exists = FALSE
    /\ quick = FALSE
    /\ clean_first = FALSE
    /\ has_biber = FALSE
    /\ build_exists = FALSE
    /\ build_created = FALSE
    /\ pdf_exists = FALSE
    /\ log = NoLog
    /\ compilation_steps = <<>>
    /\ success = FALSE
    /\ errors = <<>>
    /\ warnings = <<>>
    /\ ret = "none"
    /\ exit_code = -1
    /\ calls = <<>>
    /\ WATCHDOG_AVAILABLE = FALSE
    /\ now = 0
    /\ last_compile = 0
    /\ pending_compile = FALSE
    /\ wpc = [t \in Threads |-> "idle"]
    /\ current_time = [t \in Threads |-> 0]
    /\ return_to = [t \in Threads |-> "none"]
    /\ event = [t \in Threads |-> NoEvent]
    /\ wake = 0
    /\ observer_started = FALSE
    /\ queue = <<>>
    /\ fs = [f \in Files |-> 0]
    /\ changes = 0
    /\ file_mtimes = [f \in Files |-> -1]
    /\ current_files = [f \in Files |-> -1]
    /\ todo = {}
    /\ watch_ret = "none"
    /\ burst_start = -1
    /\ burst_ok = TRUE
    /\ burst_compiles = 0
    /\ arrived_during = "none"
    /\ completed_at = -1
    /\ last_outcome = "none"
    /\ owed = FALSE
    /\ apc = "idle"
    /\ a_text = NoLog
    /\ a_other = NoLog
    /\ a_errors = <<>>
    /\ a_warnings = <<>>
    /\ a_first = <<(<<>>), (<<>>)>>
    \* no cleaning is under way
    /\ kpc = "idle"
    /\ clean_args = [clean_build |-> TRUE, clean_temp |-> TRUE,
                     clean_cache |-> FALSE, keep_pdf |-> TRUE,
                     recursive |-> TRUE, dry_run |-> FALSE]
    /\ disk0 = {}
    /\ disk = {}
    /\ denied = {}
    /\ candidates = <<>>
    /\ files_removed = 0
    /\ dirs_removed = 0
    /\ total_files_removed = 0
    /\ total_dirs_removed = 0
    /\ attempted = {}
    /\ printed = <<>>
    /\ clean_exit = -1
    \* no release is being created
    /\ mpc = "idle"
    /\ version = <<>>
    /\ dry_run = FALSE
    /\ branch = "main"
    /\ wd_clean = FALSE
    /\ structure_valid = FALSE
    /\ local_tags0 = {}
    /\ local_tags = {}
    /\ remote_tags = {}
    /\ git_calls = <<>>
    /\ create_ret = "none"
    \* no pair of sessions is compared
    /\ b_now = 0
    /\ b_tree = [p \in BackendPaths |-> 0]
    /\ b_changes = 0
    /\ b_unseen = FALSE
    /\ wd = [last_compile |-> 0, pending_compile |-> FALSE, compiles |-> 0]
    /\ po = [last_compile |-> 0, pending_compile |-> FALSE, compiles |-> 0]
    /\ b_mtimes = [p \in BackendPaths |-> -1]

\* test_latex_compilation: `build_dir.mkdir(exist_ok=True)`, the list
\* commands is built, the loop starts at i = 1
ReleaseMkdir ==
    /\ rpc = "mkdir"
    /\ r_build_exists' = TRUE
    /\ r_build_created' = ~r_build_exists
    /\ r_i' = 1
    /\ rpc' = "run"
    /\ UNCHANGED <<ovars, cvars, wvars, avars, r_calls, r_pdf, r_ret>>

\* `code, output = self.run_command(cmd)` for the i-th command; a pdflatex
\* run that started may write or remove build/main.pdf
ReleaseRunCommand ==
    /\ rpc = "run"
    /\ \/ /\ commands[r_i] = "pdflatex"
          /\ \E o \in ReleasePdflatexOutcomes :
                /\ r_calls' = Append(r_calls, Call("pdflatex", "pass", o))
                /\ IF o = "notfound" THEN UNCHANGED r_pdf ELSE r_pdf' \in BOOLEAN
       \/ /\ commands[r_i] = "biber"
          /\ \E o \in ReleaseBiberOutcomes :
                r_calls' = Append(r_calls, Call("biber", "pass", o))
          /\ UNCHANGED r_pdf
    /\ rpc' = "judge"
    /\ UNCHANGED <<ovars, cvars, wvars, avars, r_i, r_build_exists, r_build_created, r_ret>>

\* the loop body after run_command: return False, or go on to the next
\* command, or leave the loop after the third
ReleaseJudge ==
    /\ rpc = "judge"
    /\ IF StepReturnsFalse(r_i, commands[r_i], r_calls[Len(r_calls)].rc)
       THEN /\ r_ret' = "False"
            /\ rpc' = "returned"
            /\ UNCHANGED r_i
       ELSE /\ r_i' = r_i + 1
            /\ rpc' = IF r_i = Len(commands) THEN "check_pdf" ELSE "run"
            /\ UNCHANGED r_ret
    /\ UNCHANGED <<ovars, cvars, wvars, avars, r_calls, r_build_exists, r_build_created,
                   r_pdf>>

\* `if pdf_path.exists(): ... return True` / `else: ... return False`
ReleaseCheckPdf ==
    /\ rpc = "check_pdf"
    /\ r_ret' = IF r_pdf THEN "True" ELSE "False"
    /\ rpc' = "returned"
    /\ UNCHANGED <<ovars, cvars, wvars, avars, r_i, r_calls, r_build_exists,
                   r_build_created, r_pdf>>

ReleaseNext ==
    \/ ReleaseMkdir
    \/ ReleaseRunCommand
    \/ ReleaseJudge
    \/ ReleaseCheckPdf

\* --------------------------------------- properties of scripts/release.py
\* C12: a non-zero exit of the biber step is tolerated only when its output
\* reports the missing control file; after any other failure of the biber
\* step test_latex_compilation returns False.
C12_OnlyNoControlFileTolerated ==
    \A i \in 1..Len(r_calls) :
        (/\ r_calls[i].tool = "biber"
         /\ NonZeroCode(r_calls[i].rc)
         /\ ~ReportsNoControlFile(r_calls[i].rc)) =>
            /\ i = Len(r_calls)
            /\ rpc \in {"judge", "returned"}
            /\ (rpc = "returned" => r_ret = "False")

\* ------------------------------- scripts/release.py: create_release
Digits == {"0", "1", "2", "3", "4", "5", "6", "7", "8", "9"}

\* `[0-9]+`
IsDigits(str) == Len(str) >= 1 /\ \A i \in 1..Len(str) : str[i] \in Digits

\* validate_version: re.match(r'^[0-9]+\.[0-9]+\.[0-9]+$', version), for
\* a version without a line break
validate_version(v) ==
    \E i, j \in 1..Len(v) :
        /\ i < j
        /\ v[i] = "." /\ v[j] = "."
        /\ IsDigits(SubSeq(v, 1, i - 1))
        /\ IsDigits(SubSeq(v, i + 1, j - 1))
        /\ IsDigits(SubSeq(v, j + 1, Len(v)))

\* the versions create_release is called with
Versions == {<<"1", ".", "2", ".", "3">>,
             <<"1", "0", ".", "0", ".", "1">>,
             <<"1", ".", "2">>,
             <<"v", "1", ".", "2", ".", "3">>,
             <<"1", ".", "2", ".", "x">>}

\* `tag = f"v{version}"`
TagOf(v) == <<"v">> \o v

\* the sets of tags the repository can hold before the call
TagSets == SUBSET {TagOf(<<"1", ".", "2", ".", "3">>), TagOf(<<"0", ".", "9", ".", "0">>)}

\* how a git command run by run_command can end: exit 0, or a non-zero
\* exit (an exception of subprocess.run becomes code 1)
GitOutcomes == {"zero", "nonzero"}

\* `git tag -d tag` for the tag that `git tag -a` has just created
TagDeleteOutcomes == {"zero"}

\* get_current_branch: the output of `git branch --show-current`, or
\* "unknown" when the command fails
get_current_branch(o, current) == IF o = "zero" THEN current ELSE "unknown"

\* is_working_directory_clean: `code == 0 and not output.strip()`
is_working_directory_clean(o, clean) == o = "zero" /\ clean

\* `git rev-parse tag` exits 0 when the tag names an object
RevParse(tag, tags) == IF tag \in tags THEN "zero" ELSE "nonzero"

\* tag_exists: `code == 0`
tag_exists(o) == o = "zero"

\* `if response.lower() != 'y': return False`
Declined(response) == Lower(response) # <<"y">>

\* create_release after test_latex_compilation: return False when the test
\* failed, return True at the end of a dry run, else go on to git pull
AfterTest_IgnoresDryRun(test_ok, dry) ==
    IF ~test_ok THEN "False" ELSE "pull"

AfterTest(test_ok, dry) ==
    IF ~test_ok THEN "False" ELSE IF dry THEN "True" ELSE "pull"

\* the local tags after `git tag -d tag`
TagsAfterDelete_Kept(tags, tag) == tags

TagsAfterDelete(tags, tag) == tags \ {tag}

CreateInit ==
    /\ mpc = "validate_version"
    /\ version \in Versions
    /\ dry_run \in BOOLEAN
    /\ branch \in {"main", "dev"}
    /\ wd_clean \in BOOLEAN
    /\ structure_valid \in BOOLEAN
    /\ local_tags0 \in TagSets
    /\ local_tags = local_tags0
    /\ remote_tags = {}
    /\ git_calls = <<>>
    /\ create_ret = "none"
    \* test_latex_compilation has not been called yet
    /\ rpc = "idle"
    /\ r_i = 0
    /\ r_calls = <<>>
    /\ r_build_exists \in BOOLEAN
    /\ r_build_created = FALSE
    /\ r_pdf \in BOOLEAN
    /\ (r_pdf => r_build_exists)
    /\ r_ret = "none"
    \* no compile.py call is under way in this process
    /\ cpc = "idle"
    /\ main_exists = FALSE
    /\ quick = FALSE
    /\ clean_first = FALSE
    /\ has_biber = FALSE
    /\ build_exists = FALSE
    /\ build_created = FALSE
    /\ pdf_exists = FALSE
    /\ log = NoLog
    /\ compilation_steps = <<>>
    /\ success = FALSE
    /\ errors = <<>>
    /\ warnings = <<>>
    /\ ret = "none"
    /\ exit_code = -1
    /\ calls = <<>>
    \* no watch session is under way
    /\ WATCHDOG_AVAILABLE = FALSE
    /\ now = 0
    /\ last_compile = 0
    /\ pending_compile = FALSE
    /\ wpc = [t \in Threads |-> "idle"]
    /\ current_time = [t \in Threads |-> 0]
    /\ return_to = [t \in Threads |-> "none"]
    /\ event = [t \in Threads |-> NoEvent]
    /\ wake = 0
    /\ observer_started = FALSE
    /\ queue = <<>>
    /\ fs = [f \in Files |-> 0]
    /\ changes = 0
    /\ file_mtimes = [f \in Files |-> -1]
    /\ current_files = [f \in Files |-> -1]
    /\ todo = {}
    /\ watch_ret = "none"
    /\ burst_start = -1
    /\ burst_ok = TRUE
    /\ burst_compiles = 0
    /\ arrived_during = "none"
    /\ completed_at = -1
    /\ last_outcome = "none"
    /\ owed = FALSE
    \* no analysis on its own is under way
    /\ apc = "idle"
    /\ a_text = NoLog
    /\ a_other = NoLog
    /\ a_errors = <<>>
    /\ a_warnings = <<>>
    /\ a_first = <<(<<>>), (<<>>)>>
    \* no cleaning is under way
    /\ kpc = "idle"
    /\ clean_args = [clean_build |-> TRUE, clean_temp |-> TRUE,
                     clean_cache |-> FALSE, keep_pdf |-> TRUE,
                     recursive |-> TRUE, dry_run |-> FALSE]
    /\ disk0 = {}
    /\ disk = {}
    /\ denied = {}
    /\ candidates = <<>>
    /\ files_removed = 0
    /\ dirs_removed = 0
    /\ total_files_removed = 0
    /\ total_dirs_removed = 0
    /\ attempted = {}
    /\ printed = <<>>
    /\ clean_exit = -1
    \* no pair of sessions is compared
    /\ b_now = 0
    /\ b_tree = [p \in BackendPaths |-> 0]
    /\ b_changes = 0
    /\ b_unseen = FALSE
    /\ wd = [last_compile |-> 0, pending_compile |-> FALSE, compiles |-> 0]
    /\ po = [last_compile |-> 0, pending_compile |-> FALSE, compiles |-> 0]
    /\ b_mtimes = [p \in BackendPaths |-> -1]

\* `if not self.validate_version(version): ... return False`
CreateValidateVersion ==
    /\ mpc = "validate_version"
    /\ IF validate_version(version)
       THEN /\ mpc' = "branch"
            /\ UNCHANGED create_ret
       ELSE /\ mpc' = "returned"
            /\ create_ret' = "False"
    /\ UNCHANGED <<cvars, wvars, avars, bvars, rvars, kvars, version, dry_run, branch,
                   wd_clean, structure_valid, local_tags0, local_tags,
                   remote_tags, git_calls>>

\* `branch = self.get_current_branch()`; off main, a warning and, unless
\* dry_run, the question 'Continue anyway? (y/N)'
CreateCheckBranch ==
    /\ mpc = "branch"
    /\ \E o \in GitOutcomes :
        /\ git_calls' = Append(git_calls, Call("git", "branch", o))
        /\ IF get_current_branch(o, branch) # "main" /\ ~dry_run
           THEN \E response \in {<<"y">>, <<"Y">>, <<"n">>, <<>>} :
                    IF Declined(response)
                    THEN /\ mpc' = "returned"
                         /\ create_ret' = "False"
                    ELSE /\ mpc' = "status"
                         /\ UNCHANGED create_ret
           ELSE /\ mpc' = "status"
                /\ UNCHANGED create_ret
    /\ UNCHANGED <<cvars, wvars, avars, bvars, rvars, kvars, version, dry_run, branch,
                   wd_clean, structure_valid, local_tags0, local_tags,
                   remote_tags>>

\* `if not self.is_working_directory_clean(): ... return False`
CreateCheckClean ==
    /\ mpc = "status"
    /\ \E o \in GitOutcomes :
        /\ git_calls' = Append(git_calls, Call("git", "status", o))
        /\ IF is_working_directory_clean(o, wd_clean)
           THEN /\ mpc' = "tag_exists"
                /\ UNCHANGED create_ret
           ELSE /\ mpc' = "returned"
                /\ create_ret' = "False"
    /\ UNCHANGED <<cvars, wvars, avars, bvars, rvars, kvars, version, dry_run, branch,
                   wd_clean, structure_valid, local_tags0, local_tags,
                   remote_tags>>

\* `if self.tag_exists(tag): ... return False`
CreateCheckTag ==
    /\ mpc = "tag_exists"
    /\ LET o == RevParse(TagOf(version), local_tags)
       IN  /\ git_calls' = Append(git_calls, Call("git", "rev-parse", o))
           /\ IF tag_exists(o)
              THEN /\ mpc' = "returned"
                   /\ create_ret' = "False"
              ELSE /\ mpc' = "structure"
                   /\ UNCHANGED create_ret
    /\ UNCHANGED <<cvars, wvars, avars, bvars, rvars, kvars, version, dry_run, branch,
                   wd_clean, structure_valid, local_tags0, local_tags,
                   remote_tags>>

\* `if not self.validate_project_structure(): ... return False`, else
\* test_latex_compilation() is called
CreateCheckStructure ==
    /\ mpc = "structure"
    /\ rpc = "idle"
    /\ IF structure_valid
       THEN /\ mpc' = "test"
            /\ rpc' = "mkdir"
            /\ UNCHANGED create_ret
       ELSE /\ mpc' = "returned"
            /\ create_ret' = "False"
            /\ UNCHANGED rpc
    /\ UNCHANGED <<cvars, wvars, avars, bvars, kvars, r_i, r_calls, r_build_exists,
                   r_build_created, r_pdf, r_ret, version, dry_run, branch,
                   wd_clean, structure_valid, local_tags0, local_tags,
                   remote_tags, git_calls>>

\* test_latex_compilation() returned: `return False` when it failed,
\* `return True` at the end of a dry run
CreateAfterTest ==
    /\ mpc = "test"
    /\ rpc = "returned"
    /\ LET next == AfterTest(r_ret = "True", dry_run)
       IN  IF next = "pull"
           THEN /\ mpc' = "pull"
                /\ UNCHANGED create_ret
           ELSE /\ mpc' = "returned"
                /\ create_ret' = next
    /\ UNCHANGED <<cvars, wvars, avars, bvars, rvars, kvars, version, dry_run, branch,
                   wd_clean, structure_valid, local_tags0, local_tags,
                   remote_tags, git_calls>>

\* `git pull origin main`
CreatePull ==
    /\ mpc = "pull"
    /\ \E o \in GitOutcomes :
        /\ git_calls' = Append(git_calls, Call("git", "pull", o))
        /\ IF o = "zero"
           THEN /\ mpc' = "tag"
                /\ UNCHANGED create_ret
           ELSE /\ mpc' = "returned"
                /\ create_ret' = "False"
    /\ UNCHANGED <<cvars, wvars, avars, bvars, rvars, kvars, version, dry_run, branch,
                   wd_clean, structure_valid, local_tags0, local_tags,
                   remote_tags>>

\* `git tag -a tag -m ...`
CreateTag ==
    /\ mpc = "tag"
    /\ \E o \in GitOutcomes :
        /\ git_calls' = Append(git_calls, Call("git", "tag -a", o))
        /\ IF o = "zero"
           THEN /\ local_tags' = local_tags \cup {TagOf(version)}
                /\ mpc' = "push"
                /\ UNCHANGED create_ret
           ELSE /\ mpc' = "returned"
                /\ create_ret' = "False"
                /\ UNCHANGED local_tags
    /\ UNCHANGED <<cvars, wvars, avars, bvars, rvars, kvars, version, dry_run, branch,
                   wd_clean, structure_valid, local_tags0, remote_tags>>

\* `git push origin tag`; after a push that succeeded, `git remote get-url
\* origin` and `return True`
CreatePush ==
    /\ mpc = "push"
    /\ \E o \in GitOutcomes :
        IF o = "zero"
        THEN /\ \E u \in GitOutcomes :
                  git_calls' = git_calls \o <<Call("git", "push", o),
                                              Call("git", "remote", u)>>
             /\ remote_tags' = remote_tags \cup {TagOf(version)}
             /\ mpc' = "returned"
             /\ create_ret' = "True"
        ELSE /\ git_calls' = Append(git_calls, Call("git", "push", o))
             /\ mpc' = "cleanup"
             /\ UNCHANGED <<remote_tags, create_ret>>
    /\ UNCHANGED <<cvars, wvars, avars, bvars, rvars, kvars, version, dry_run, branch,
                   wd_clean, structure_valid, local_tags0, local_tags>>

\* the push failed: `self.run_command(["git", "tag", "-d", tag])`, then
\* `return False`
CreateCleanup ==
    /\ mpc = "cleanup"
    /\ \E o \in TagDeleteOutcomes :
        /\ git_calls' = Append(git_calls, Call("git", "tag -d", o))
        /\ local_tags' = TagsAfterDelete(local_tags, TagOf(version))
    /\ mpc' = "returned"
    /\ create_ret' = "False"
    /\ UNCHANGED <<cvars, wvars, avars, bvars, rvars, kvars, version, dry_run, branch,
                   wd_clean, structure_valid, local_tags0, remote_tags>>

CreateNext ==
    \/ CreateValidateVersion
    \/ CreateCheckBranch
    \/ CreateCheckClean
    \/ CreateCheckTag
    \/ CreateCheckStructure
    \/ ReleaseMkdir
    \/ ReleaseRunCommand
    \/ ReleaseJudge
    \/ ReleaseCheckPdf
    \/ CreateAfterTest
    \/ CreatePull
    \/ CreateTag
    \/ CreatePush
    \/ CreateCleanup

\* ----------------------------------------- properties of create_release
\* the git commands that change the repository or the remote
StateChanging == {"pull", "tag -a", "push", "tag -d"}

\* the positions in git_calls of the commands with the given argument
CallsOf(arg) == {i \in 1..Len(git_calls) : git_calls[i].arg = arg}

\* the five pre-flight checks of the claim hold of the call
PreflightHolds ==
    /\ validate_version(version)
    /\ wd_clean
    /\ TagOf(version) \notin local_tags0
    /\ structure_valid
    /\ r_ret = "True"

\* C28: pull, tag -a and push run only after the pre-flight checks have
\* passed, in order (version, clean working directory, tag not existing,
\* project structure, test compilation), and never in a dry run; when a
\* check fails or dry_run is set, no tag is created and nothing is pulled
\* or pushed.
C28_PreflightBeforeGitChanges ==
    /\ \A i \in 1..Len(git_calls) :
          git_calls[i].arg \in StateChanging =>
              /\ ~dry_run
              /\ PreflightHolds
              /\ rpc = "returned"
              /\ \E a, b \in 1..(i - 1) :
                    /\ a < b
                    /\ git_calls[a] = Call("git", "status", "zero")
                    /\ git_calls[b] = Call("git", "rev-parse", "nonzero")
              /\ \A j \in 1..(i - 1) :
                    /\ git_calls[i].arg = "pull" =>
                          git_calls[j].arg \notin StateChanging
                    /\ git_calls[i].arg = "tag -a" =>
                          git_calls[j].arg \notin {"tag -a", "push", "tag -d"}
                    /\ git_calls[i].arg = "push" =>
                          git_calls[j].arg \notin {"push", "tag -d"}
    /\ (~validate_version(version) /\ mpc = "returned") =>
          git_calls = <<>> /\ r_calls = <<>>
    /\ (dry_run \/ (mpc = "returned" /\ ~PreflightHolds)) =>
          /\ local_tags = local_tags0
          /\ remote_tags = {}
          /\ \A i \in 1..Len(git_calls) : git_calls[i].arg \notin StateChanging

C28_Witness ==
    /\ mpc = "returned"
    /\ create_ret = "True"
    /\ ~dry_run
    /\ branch = "dev"
    /\ CallsOf("push") # {}
    /\ TagOf(version) \in local_tags \ local_tags0
    /\ local_tags0 # {}

CleanFile(parts) == [parts |-> parts, is_directory |-> FALSE]

CleanDir(parts) == [parts |-> parts, is_directory |-> TRUE]

NameAux == <<"a", ".", "a", "u", "x">>
NameMainAux == <<"m", "a", "i", "n", ".", "a", "u", "x">>
NameMainPdf == <<"m", "a", "i", "n", ".", "p", "d", "f">>
NameDocPdf == <<"d", "o", "c", ".", "p", "d", "f">>
DirPytestCache == <<".", "p", "y", "t", "e", "s", "t", "_", "c", "a", "c", "h", "e">>

BaseAux == CleanFile(<<NameAux>>)
BuildDir == CleanDir(<<DirBuild>>)
BuildAux == CleanFile(<<DirBuild, NameMainAux>>)
BuildPdf == CleanFile(<<DirBuild, NameMainPdf>>)
CacheDir == CleanDir(<<DirNodeModules>>)
CachePdf == CleanFile(<<DirNodeModules, NameDocPdf>>)

\* the order in which a directory listing yields the paths
PathOrder == <<BaseAux, BuildDir, BuildAux, BuildPdf, CacheDir, CachePdf>>

CleanPaths == {PathOrder[i] : i \in 1..Len(PathOrder)}

\* p lies directly or deeper inside the directory d
Inside(p, d) ==
    /\ Len(p.parts) > Len(d.parts)
    /\ SubSeq(p.parts, 1, Len(d.parts)) = d.parts

\* the trees: every path of a tree lies in a directory of the tree
Trees ==
    {t \in SUBSET CleanPaths :
        \A p \in t : Len(p.parts) = 1 \/
            \E d \in t : d.is_directory /\ Inside(p, d)}

\* the sets of paths whose removal the file system denies
DeniedSets(t) == {d \in SUBSET t : Cardinality(d) <= MaxDenied}

get_latex_temp_extensions ==
    <<
      <<"*", ".", "a", "u", "x">>,
      <<"*", ".", "b", "b", "l">>,
      <<"*", ".", "b", "c", "f">>,
      <<"*", ".", "b", "l", "g">>,
      <<"*", ".", "f", "d", "b", "_", "l", "a", "t", "e", "x", "m", "k">>,
      <<"*", ".", "f", "l", "s">>,
      <<"*", ".", "l", "o", "g">>,
      <<"*", ".", "o", "u", "t">>,
      <<"*", ".", "r", "u", "n", ".", "x", "m", "l">>,
      <<"*", ".", "s", "y", "n", "c", "t", "e", "x", ".", "g", "z">>,
      <<"*", ".", "t", "o", "c">>,
      <<"*", ".", "l", "o", "f">>,
      <<"*", ".", "l", "o", "t">>,
      <<"*", ".", "a", "c", "n">>,
      <<"*", ".", "a", "c", "r">>,
      <<"*", ".", "a", "l", "g">>,
      <<"*", ".", "g", "l", "g">>,
      <<"*", ".", "g", "l", "o">>,
      <<"*", ".", "g", "l", "s">>,
      <<"*", ".", "i", "d", "x">>,
      <<"*", ".", "i", "l", "g">>,
      <<"*", ".", "i", "n", "d">>,
      <<"*", ".", "i", "s", "t">>,
      <<"*", ".", "l", "o", "l">>,
      <<"*", ".", "n", "a", "v">>,
      <<"*", ".", "s", "n", "m">>,
      <<"*", ".", "v", "r", "b">>,
      <<"*", ".", "x", "d", "y">>,
      <<"*", ".", "t", "d", "o">>,
      <<"*", ".", "f", "i", "g", "l", "i", "s", "t">>,
      <<"*", ".", "m", "a", "k", "e", "f", "i", "l", "e">>,
      <<"*", ".", "f", "i", "g", "l", "i", "s", "t">>,
      <<"*", ".", "f", "i", "g", "l", "i", "s", "t">>
    >>

\* Path.glob / Path.rglob with a pattern '*' + suffix: the name ends with
\* the suffix
GlobMatch(pattern, name) ==
    /\ pattern[1] = "*"
    /\ EndsWith(name, Tail(pattern))

\* base_path.rglob(pattern) or base_path.glob(pattern) on the tree t
Globbed(t, pattern, recursive) ==
    SelectSeq(PathOrder,
              LAMBDA p : /\ p \in t
                         /\ GlobMatch(pattern, PathName(p))
                         /\ (recursive \/ Len(p.parts) = 1))

RECURSIVE FindFrom(_, _, _, _)
FindFrom(t, patterns, recursive, k) ==
    IF k > Len(patterns) THEN <<>>
    ELSE Globbed(t, patterns[k], recursive)
            \o FindFrom(t, patterns, recursive, k + 1)

\* find_files_to_clean: the matches of every pattern, one pattern after
\* the other
find_files_to_clean(t, patterns, recursive) == FindFrom(t, patterns, recursive, 1)

\* `file_path.suffix.lower() == '.pdf'`
IsPdf(p) == Lower(PathSuffix(p)) = <<".", "p", "d", "f">>

\* clean_build_directory: `for file_path in build_dir.iterdir(): if
\* file_path.is_file()`
BuildFiles(t) ==
    SelectSeq(PathOrder,
              LAMBDA p : /\ p \in t
                         /\ ~p.is_directory
                         /\ Len(p.parts) = 2
                         /\ Inside(p, BuildDir))

\* clean_build_directory: `if keep_pdf and file_path.suffix.lower() ==
\* '.pdf': continue`
KeptInBuild(keep_pdf, p) == keep_pdf /\ IsPdf(p)

cache_dirs == <<DirPycache, DirPytestCache, DirNodeModules>>

RECURSIVE CacheFrom(_, _)
CacheFrom(t, k) ==
    IF k > Len(cache_dirs) THEN <<>>
    ELSE SelectSeq(PathOrder,
                   LAMBDA p : p \in t /\ PathName(p) = cache_dirs[k])
            \o CacheFrom(t, k + 1)

\* clean_cache_directories: base_path.rglob(cache_dir_name) for each name
CacheFound(t) == CacheFrom(t, 1)

\* how file_path.unlink() ends: the file is gone, or PermissionError, or
\* FileNotFoundError for a path removed earlier
UnlinkResult(p, t, deny) ==
    IF p \notin t THEN "missing"
    ELSE IF p \in deny THEN "denied"
    ELSE "removed"

\* shutil.rmtree(d): the entries inside d are removed in listing order up
\* to the first one that is denied, then d itself unless it is denied
Entries(d, t) == SelectSeq(PathOrder, LAMBDA p : p \in t /\ Inside(p, d))

FirstDenied(seq, deny) ==
    IF \E i \in 1..Len(seq) : seq[i] \in deny
    THEN CHOOSE i \in 1..Len(seq) :
            seq[i] \in deny /\ \A j \in 1..(i - 1) : seq[j] \notin deny
    ELSE Len(seq) + 1

RmtreeRemoved(d, t, deny) ==
    LET es == Entries(d, t)
        k == FirstDenied(es, deny)
    IN  {es[i] : i \in 1..(k - 1)}
            \cup (IF k = Len(es) + 1 /\ d \notin deny THEN {d} ELSE {})

RmtreeRaises(d, t, deny) == d \notin RmtreeRemoved(d, t, deny)

\* a printed line: its prefix, its text, and the path or number in it
Msg(prefix, text, arg) == <<prefix, text, arg>>

\* clean_project: what `if clean_temp:` does with the files found
TempPhase_IgnoresDryRun(args, temp_files) ==
    IF ~args.clean_temp \/ temp_files = <<>> THEN "skip" ELSE "clean"

TempPhase(args, temp_files) ==
    IF ~args.clean_temp \/ temp_files = <<>> THEN "skip"
    ELSE IF args.dry_run THEN "list" ELSE "clean"

\* clean_project: what `if clean_build:` does
BuildPhase(args, t) ==
    IF ~args.clean_build \/ BuildDir \notin t THEN "skip"
    ELSE IF args.dry_run THEN "list" ELSE "clean"

\* clean_project: what `if clean_cache:` does
CachePhase(args) ==
    IF ~args.clean_cache THEN "skip"
    ELSE IF args.dry_run THEN "list" ELSE "clean"

CleanArgs ==
    [clean_build : BOOLEAN, clean_temp : BOOLEAN, clean_cache : BOOLEAN,
     keep_pdf : BOOLEAN, recursive : BOOLEAN, dry_run : BOOLEAN]

CleanInit ==
    /\ kpc = "temp"
    /\ clean_args \in CleanArgs
    /\ disk0 \in Trees
    /\ disk = disk0
    /\ denied \in DeniedSets(disk0)
    /\ candidates = <<>>
    /\ files_removed = 0
    /\ dirs_removed = 0
    /\ total_files_removed = 0
    /\ total_dirs_removed = 0
    /\ attempted = {}
    /\ printed = <<>>
    /\ clean_exit = -1
    \* no compile.py call is under way in this process
    /\ cpc = "idle"
    /\ main_exists = FALSE
    /\ quick = FALSE
    /\ clean_first = FALSE
    /\ has_biber = FALSE
    /\ build_exists = FALSE
    /\ build_created = FALSE
    /\ pdf_exists = FALSE
    /\ log = NoLog
    /\ compilation_steps = <<>>
    /\ success = FALSE
    /\ errors = <<>>
    /\ warnings = <<>>
    /\ ret = "none"
    /\ exit_code = -1
    /\ calls = <<>>
    \* no watch session is under way
    /\ WATCHDOG_AVAILABLE = FALSE
    /\ now = 0
    /\ last_compile = 0
    /\ pending_compile = FALSE
    /\ wpc = [t \in Threads |-> "idle"]
    /\ current_time = [t \in Threads |-> 0]
    /\ return_to = [t \in Threads |-> "none"]
    /\ event = [t \in Threads |-> NoEvent]
    /\ wake = 0
    /\ observer_started = FALSE
    /\ queue = <<>>
    /\ fs = [f \in Files |-> 0]
    /\ changes = 0
    /\ file_mtimes = [f \in Files |-> -1]
    /\ current_files = [f \in Files |-> -1]
    /\ todo = {}
    /\ watch_ret = "none"
    /\ burst_start = -1
    /\ burst_ok = TRUE
    /\ burst_compiles = 0
    /\ arrived_during = "none"
    /\ completed_at = -1
    /\ last_outcome = "none"
    /\ owed = FALSE
    \* no analysis on its own is under way
    /\ apc = "idle"
    /\ a_text = NoLog
    /\ a_other = NoLog
    /\ a_errors = <<>>
    /\ a_warnings = <<>>
    /\ a_first = <<(<<>>), (<<>>)>>
    \* no release test is under way
    /\ rpc = "idle"
    /\ r_i = 0
    /\ r_calls = <<>>
    /\ r_build_exists = FALSE
    /\ r_build_created = FALSE
    /\ r_pdf = FALSE
    /\ r_ret = "none"
    \* no release is being created
    /\ mpc = "idle"
    /\ version = <<>>
    /\ dry_run = FALSE
    /\ branch = "main"
    /\ wd_clean = FALSE
    /\ structure_valid = FALSE
    /\ local_tags0 = {}
    /\ local_tags = {}
    /\ remote_tags = {}
    /\ git_calls = <<>>
    /\ create_ret = "none"
    \* no pair of sessions is compared
    /\ b_now = 0
    /\ b_tree = [p \in BackendPaths |-> 0]
    /\ b_changes = 0
    /\ b_unseen = FALSE
    /\ wd = [last_compile |-> 0, pending_compile |-> FALSE, compiles |-> 0]
    /\ po = [last_compile |-> 0, pending_compile |-> FALSE, compiles |-> 0]
    /\ b_mtimes = [p \in BackendPaths |-> -1]

\* clean_project: `if clean_temp:` up to the call of clean_temp_files and
\* its find_files_to_clean
CleanScanTemp ==
    /\ kpc = "temp"
    /\ LET temp_files == find_files_to_clean(disk, get_latex_temp_extensions,
                                             clean_args.recursive)
           phase == TempPhase(clean_args, temp_files)
       IN  /\ kpc' = IF phase = "clean" THEN "temp_loop" ELSE "build"
           /\ candidates' = IF phase = "clean" THEN temp_files ELSE <<>>
           /\ printed' = IF phase = "list"
                         THEN Append(printed, Msg("[DRY-RUN]",
                                  "Temporary files that would be removed",
                                  Len(temp_files)))
                         ELSE printed
    /\ files_removed' = 0
    /\ UNCHANGED <<cvars, wvars, avars, bvars, mvars, rvars, clean_args, disk0, disk, denied,
                   dirs_removed, total_files_removed, total_dirs_removed,
                   attempted, clean_exit>>

\* clean_temp_files: one iteration of `for file_path in files_to_clean`, or
\* the return and clean_project's `total_files_removed += files_removed`
CleanTempUnlink ==
    /\ kpc = "temp_loop"
    /\ IF candidates = <<>>
       THEN /\ total_files_removed' = total_files_removed + files_removed
            /\ printed' = Append(printed, Msg("[SUCCESS]",
                              "Removed temporary files", files_removed))
            /\ kpc' = "build"
            /\ UNCHANGED <<candidates, disk, files_removed, attempted>>
       ELSE LET p == Head(candidates)
                r == UnlinkResult(p, disk, denied)
            IN  /\ candidates' = Tail(candidates)
                /\ attempted' = attempted \cup {p}
                /\ disk' = IF r = "removed" THEN disk \ {p} ELSE disk
                /\ files_removed' = IF r = "removed" THEN files_removed + 1
                                    ELSE files_removed
                /\ printed' = Append(printed,
                      CASE r = "removed" -> Msg("[CLEAN]", "Removed", p)
                        [] r = "denied" -> Msg("[WARNING]", "Permission denied", p)
                        [] r = "missing" -> Msg("[WARNING]", "Error removing", p))
                /\ UNCHANGED <<kpc, total_files_removed>>
    /\ UNCHANGED <<cvars, wvars, avars, bvars, mvars, rvars, clean_args, disk0, denied,
                   dirs_removed, total_dirs_removed, clean_exit>>

\* clean_project: `if clean_build:` up to the call of clean_build_directory
\* and its build_dir.iterdir()
CleanScanBuild ==
    /\ kpc = "build"
    /\ LET phase == BuildPhase(clean_args, disk)
           listed == SelectSeq(BuildFiles(disk),
                               LAMBDA p : ~(clean_args.keep_pdf /\ IsPdf(p)))
       IN  /\ kpc' = IF phase = "clean" THEN "build_loop" ELSE "cache"
           /\ candidates' = IF phase = "clean" THEN BuildFiles(disk) ELSE <<>>
           /\ printed' = IF phase = "list"
                         THEN Append(printed, Msg("[DRY-RUN]",
                                  "Build files that would be removed",
                                  Len(listed)))
                         ELSE printed
    /\ files_removed' = 0
    /\ UNCHANGED <<cvars, wvars, avars, bvars, mvars, rvars, clean_args, disk0, disk, denied,
                   dirs_removed, total_files_removed, total_dirs_removed,
                   attempted, clean_exit>>

\* clean_build_directory: one iteration of `for file_path in
\* build_dir.iterdir()`, or the return and clean_project's
\* `total_files_removed += files_removed`
CleanBuildUnlink ==
    /\ kpc = "build_loop"
    /\ IF candidates = <<>>
       THEN /\ total_files_removed' = total_files_removed + files_removed
            /\ printed' = Append(printed, Msg("[SUCCESS]",
                              "Cleaned build directory", files_removed))
            /\ kpc' = "cache"
            /\ UNCHANGED <<candidates, disk, files_removed, attempted>>
       ELSE LET p == Head(candidates)
                r == UnlinkResult(p, disk, denied)
            IN  /\ candidates' = Tail(candidates)
                /\ IF KeptInBuild(clean_args.keep_pdf, p)
                   THEN UNCHANGED <<disk, files_removed, attempted, printed>>
                   ELSE /\ attempted' = attempted \cup {p}
                        /\ disk' = IF r = "removed" THEN disk \ {p} ELSE disk
                        /\ files_removed' = IF r = "removed"
                                            THEN files_removed + 1
                                            ELSE files_removed
                        /\ printed' =
                              CASE r = "removed" -> printed
                                [] r = "denied" ->
                                     Append(printed, Msg("[WARNING]",
                                                "Permission denied", p))
                                [] r = "missing" ->
                                     Append(printed, Msg("[WARNING]",
                                                "Error removing", p))
                /\ UNCHANGED <<kpc, total_files_removed>>
    /\ UNCHANGED <<cvars, wvars, avars, bvars, mvars, rvars, clean_args, disk0, denied,
                   dirs_removed, total_dirs_removed, clean_exit>>

\* clean_project: `if clean_cache:` up to the call of
\* clean_cache_directories and its rglob
CleanScanCache ==
    /\ kpc = "cache"
    /\ LET phase == CachePhase(clean_args)
       IN  /\ kpc' = IF phase = "clean" THEN "cache_loop" ELSE "summary"
           /\ candidates' = IF phase = "clean" THEN CacheFound(disk) ELSE <<>>
           /\ printed' = IF phase = "list" /\ CacheFound(disk) # <<>>
                         THEN Append(printed, Msg("[DRY-RUN]",
                                  "Cache directories that would be removed",
                                  Len(CacheFound(disk))))
                         ELSE printed
    /\ dirs_removed' = 0
    /\ UNCHANGED <<cvars, wvars, avars, bvars, mvars, rvars, clean_args, disk0, disk, denied,
                   files_removed, total_files_removed, total_dirs_removed,
                   attempted, clean_exit>>

\* clean_cache_directories: one iteration of `for cache_dir in
\* base_path.rglob(cache_dir_name)`, or the return and clean_project's
\* `total_dirs_removed += dirs_removed`
CleanCacheRmtree ==
    /\ kpc = "cache_loop"
    /\ IF candidates = <<>>
       THEN /\ total_dirs_removed' = total_dirs_removed + dirs_removed
            /\ printed' = IF dirs_removed > 0
                          THEN Append(printed, Msg("[SUCCESS]",
                                   "Removed cache directories", dirs_removed))
                          ELSE printed
            /\ kpc' = "summary"
            /\ UNCHANGED <<candidates, disk, dirs_removed, attempted>>
       ELSE LET d == Head(candidates)
            IN  /\ candidates' = Tail(candidates)
                /\ IF d.is_directory
                   THEN /\ attempted' = attempted \cup {d}
                        /\ disk' = disk \ RmtreeRemoved(d, disk, denied)
                        /\ dirs_removed' = IF RmtreeRaises(d, disk, denied)
                                           THEN dirs_removed
                                           ELSE dirs_removed + 1
                        /\ printed' = Append(printed,
                              IF RmtreeRaises(d, disk, denied)
                              THEN Msg("[WARNING]", "Permission denied", d)
                              ELSE Msg("[CLEAN]", "Removed directory", d))
                   ELSE UNCHANGED <<disk, dirs_removed, attempted, printed>>
                /\ UNCHANGED <<kpc, total_dirs_removed>>
    /\ UNCHANGED <<cvars, wvars, avars, bvars, mvars, rvars, clean_args, disk0, denied,
                   files_removed, total_files_removed, clean_exit>>

\* clean_project: the summary, and the return to main()
CleanSummary ==
    /\ kpc = "summary"
    /\ printed' =
          IF clean_args.dry_run
          THEN Append(printed, Msg("[DRY-RUN]", "DRY RUN COMPLETE", 0))
          ELSE Append(printed, Msg("[SUCCESS]", "CLEANING COMPLETE", 0))
                  \o <<Msg("[SUMMARY]", "Files removed", total_files_removed)>>
                  \o (IF total_dirs_removed > 0
                      THEN <<Msg("[SUMMARY]", "Directories removed",
                                 total_dirs_removed)>>
                      ELSE <<>>)
    /\ kpc' = "returned"
    /\ UNCHANGED <<cvars, wvars, avars, bvars, mvars, rvars, clean_args, disk0, disk, denied,
                   candidates, files_removed, dirs_removed,
                   total_files_removed, total_dirs_removed, attempted,
                   clean_exit>>

\* main(): clean_project returned and the script ends without sys.exit
CleanMainExit ==
    /\ kpc = "returned"
    /\ clean_exit' = 0
    /\ kpc' = "exited"
    /\ UNCHANGED <<cvars, wvars, avars, bvars, mvars, rvars, clean_args, disk0, disk, denied,
                   candidates, files_removed, dirs_removed,
                   total_files_removed, total_dirs_removed, attempted,
                   printed>>

\* main(): `except KeyboardInterrupt:` while clean_project runs
CleanInterrupt ==
    /\ kpc \in {"temp", "temp_loop", "build", "build_loop", "cache",
                "cache_loop", "summary"}
    /\ printed' = Append(printed, Msg("[INTERRUPTED]",
                             "Cleaning interrupted by user", 0))
    /\ clean_exit' = 1
    /\ kpc' = "exited"
    /\ UNCHANGED <<cvars, wvars, avars, bvars, mvars, rvars, clean_args, disk0, disk, denied,
                   candidates, files_removed, dirs_removed,
                   total_files_removed, total_dirs_removed, attempted>>

CleanNext ==
    \/ CleanScanTemp
    \/ CleanTempUnlink
    \/ CleanScanBuild
    \/ CleanBuildUnlink
    \/ CleanScanCache
    \/ CleanCacheRmtree
    \/ CleanSummary
    \/ CleanMainExit
    \/ CleanInterrupt

\* ----------------------------------------- properties of scripts/clean.py
\* the call of clean_project has returned to main()
CleanReturned == kpc = "returned" \/ (kpc = "exited" /\ clean_exit = 0)

\* C22: with keep_pdf, no cleaning step in any selected scope deletes a
\* file whose extension is .pdf.
C22_KeepPdfKeepsEveryPdf ==
    clean_args.keep_pdf =>
        \A p \in disk0 : (~p.is_directory /\ IsPdf(p)) => p \in disk

\* what the selected scopes are to remove from the tree t
CleanCandidates(args, t) ==
    {p \in t :
        \/ /\ args.clean_temp
           /\ \E k \in 1..Len(get_latex_temp_extensions) :
                 GlobMatch(get_latex_temp_extensions[k], PathName(p))
           /\ (args.recursive \/ Len(p.parts) = 1)
        \/ /\ args.clean_build
           /\ ~p.is_directory
           /\ Inside(p, BuildDir)
           /\ ~(args.keep_pdf /\ IsPdf(p))
        \/ /\ args.clean_cache
           /\ p.is_directory
           /\ \E k \in 1..Len(cache_dirs) : PathName(p) = cache_dirs[k]}

\* the paths of the 'Permission denied' warnings printed so far
ReportedDenied ==
    {printed[i][3] : i \in {j \in 1..Len(printed) :
                              printed[j][2] = "Permission denied"}}

\* the summary has a line about the removals that were denied
ReportedInAggregate ==
    \E i \in 1..Len(printed) :
        printed[i][1] = "[SUMMARY]" /\ printed[i][2] = "Permission denied"

\* a denied removal does not abort the cleaning: every candidate is
\* attempted, what could not be removed is still there and is not counted
BatchNotAborted ==
    (CleanReturned /\ ~clean_args.dry_run) =>
        /\ CleanCandidates(clean_args, disk0) \subseteq attempted
        /\ \A p \in attempted \cap denied : p \in disk
        /\ \A p \in ReportedDenied : p \in disk
        /\ total_files_removed =
              Cardinality({p \in attempted : ~p.is_directory /\ p \notin disk})
        /\ total_dirs_removed =
              Cardinality({p \in attempted : p.is_directory /\ p \notin disk})

\* C23: a permission error on one removal never aborts the cleaning (every
\* other candidate is attempted, the failed item stays and is not counted)
\* and the errors are reported in aggregate.
C23_DeniedCollectedAndReported ==
    /\ BatchNotAborted
    /\ (CleanReturned /\ ReportedDenied # {}) => ReportedInAggregate

\* C25: with dry_run, clean_project removes nothing, whatever the scopes,
\* keep_pdf and recursive are.
C25_DryRunRemovesNothing == clean_args.dry_run => disk = disk0

C25_Witness ==
    /\ kpc = "returned"
    /\ clean_args.dry_run
    /\ clean_args.clean_temp /\ clean_args.clean_build /\ clean_args.clean_cache
    /\ ~clean_args.keep_pdf
    /\ disk0 = CleanPaths
    /\ Len(printed) = 4

\* C24: every entry point exits 0 exactly when its operation succeeded and
\* 1 on any failure: compile.py exits 0 only when every pass exited zero
\* and the PDF exists, clean.py exits 0 only when it was not interrupted
\* and no removal was denied.
C24_ExitCodeTellsSuccess ==
    /\ cpc = "exited" =>
          /\ exit_code \in {0, 1}
          /\ exit_code = 0 <=>
                (main_exists /\ LatexProbeOk /\ AllPassesZero /\ pdf_exists)
    /\ kpc = "exited" =>
          /\ clean_exit \in {0, 1}
          /\ clean_exit = 0 <=>
                /\ \A i \in 1..Len(printed) : printed[i][1] # "[INTERRUPTED]"
                /\ ReportedDenied = {}


\* ------------------------------------------------------ specifications
SpecCompile == CompileInit /\ [][CompileNext]_vars

SpecAnalyze == AnalyzeInit /\ [][AnalyzeNext]_vars

SpecWatch == WatchInit /\ [][WatchNext]_vars

SpecHandler == HandlerInit /\ [][HandlerNext]_vars

SpecRelease == ReleaseInit /\ [][ReleaseNext]_vars

SpecClean == CleanInit /\ [][CleanNext]_vars

SpecCreate == CreateInit /\ [][CreateNext]_vars

SpecPoll == PollInit /\ [][PollNext]_vars

SpecTracked == WatchInit /\ [][TrackedNext]_vars

SpecBackends == BackendsInit /\ [][BackendsNext]_vars

====
